---- MODULE Spec2Model ----
(***************************************************************************)
(* Model of @ibnlanre/multer: four in-memory multer storage engines        *)
(* (FakeMulterStorage, FakeMulterS3, FakeMulterCloudStorage,               *)
(* FakeMulterAzureBlobStorage), the MemoryWritable sink they pipe the file *)
(* stream into, and the process-wide inMemoryStorage map.                  *)
(*                                                                         *)
(* JavaScript strings are sequences of one-character strings, byte buffers *)
(* are sequences of integers in 0..255, and the Map inMemoryStorage is a   *)
(* function whose domain is the set of keys present.                       *)
(***************************************************************************)
EXTENDS Integers, Sequences, FiniteSets, TLC

\* ------------------------------------------------------------------ bounds
\* most chunks a file stream delivers before it ends or fails
MaxChunks == 2
\* most chunks handed to a stand-alone MemoryWritable
MaxWrites == 3
\* most _handleFile calls made in one run
MaxUploads == 2
\* most _removeFile calls made in one run
MaxRemoves == 1

\* ------------------------------------------------------------ value domains
Null == "null"

\* chunks of different lengths and different bytes
ChunkSet == { <<7>>, <<1, 0>> }

\* original names of the uploaded files
Names == { << "a", ".", "t" >>, << "b" >> }

\* ------------------------------------------------------- sequence helpers
RECURSIVE Flatten(_)
\* Buffer.concat(list)
Flatten(list) ==
  IF list = <<>> THEN <<>> ELSE Head(list) \o Flatten(Tail(list))

RECURSIVE JoinWith(_, _)
\* Array.prototype.join(sep) on an array of strings
JoinWith(parts, sep) ==
  IF parts = <<>> THEN <<>>
  ELSE IF Len(parts) = 1 THEN parts[1]
  ELSE parts[1] \o sep \o JoinWith(Tail(parts), sep)

RECURSIVE StripLeading(_, _)
\* String.prototype.replace(/^[set]+/g, "")
StripLeading(str, set) ==
  IF str # <<>> /\ Head(str) \in set THEN StripLeading(Tail(str), set)
  ELSE str

RECURSIVE StripTrailing(_, _)
\* String.prototype.replace(/[set]+$/g, "")
StripTrailing(str, set) ==
  IF str # <<>> /\ str[Len(str)] \in set
  THEN StripTrailing(SubSeq(str, 1, Len(str) - 1), set)
  ELSE str

\* String.prototype.lastIndexOf(ch), counted from 1; 0 when ch is absent
LastIndexOf(str, ch) ==
  LET at == { i \in 1..Len(str) : str[i] = ch }
  IN IF at = {} THEN 0 ELSE CHOOSE i \in at : \A j \in at : j <= i

\* path.extname(p) of node:path
ExtName(p) ==
  LET base == SubSeq(p, LastIndexOf(p, "/") + 1, Len(p))
      dot == LastIndexOf(base, ".")
  IN IF dot <= 1 \/ base = << ".", "." >> THEN <<>>
     ELSE SubSeq(base, dot, Len(base))

\* --------------------------------------------------------- MemoryWritable
\* a sink whose size starts at 0
MW_New_Zero == [ size |-> 0, chunks |-> <<>>, destroyed |-> FALSE ]

\* new MemoryWritable(): size = 1, chunks = []
MW_New == [ size |-> 1, chunks |-> <<>>, destroyed |-> FALSE ]

\* _write that puts the chunk in front of the ones already held
MW_write_Prepend(w, chunk) ==
  [ w EXCEPT !.size = @ + Len(chunk), !.chunks = << chunk >> \o @ ]

\* _write(chunk, encoding, callback)
MW_write(w, chunk) ==
  [ w EXCEPT !.size = @ + Len(chunk), !.chunks = Append(@, chunk) ]

\* getBuffer()
MW_getBuffer(w) == Flatten(w.chunks)

\* _destroy that puts size back to its initial value
MW_destroy_ResetOne(w) ==
  [ w EXCEPT !.chunks = <<>>, !.size = 1, !.destroyed = TRUE ]

\* _destroy(error, callback): the fields it assigns
MW_destroy(w) ==
  [ w EXCEPT !.chunks = <<>>, !.size = 0, !.destroyed = TRUE ]

\* _destroy(error, callback): what it hands to its callback
MW_destroyCallback(error) == error

RECURSIVE MW_writev_NoSize(_, _)
\* _writev that keeps the chunks and forgets to add their lengths
MW_writev_NoSize(w, list) ==
  IF list = <<>> THEN w
  ELSE MW_writev_NoSize([ w EXCEPT !.chunks = Append(@, Head(list)) ],
                        Tail(list))

RECURSIVE MW_writev(_, _)
\* _writev(chunks, callback): the for-of loop over the list
MW_writev(w, list) ==
  IF list = <<>> THEN w
  ELSE MW_writev([ w EXCEPT !.size = @ + Len(Head(list)),
                            !.chunks = Append(@, Head(list)) ],
                 Tail(list))

\* -------------------------------------------------------------- JS values
\* the value undefined (an omitted callback argument); never part of a string
Undefined == << "undefined" >>
\* the value null in a result field
JsNull == << "null" >>

\* a default parameter (x = "") replaces undefined only
DefaultParam(v, d) == IF v = Undefined THEN d ELSE v

\* Boolean(v) for strings, null and undefined
Truthy(v) == v # <<>> /\ v # Undefined /\ v # JsNull

\* [a, b].filter(Boolean)
FilterTruthy(parts) == SelectSeq(parts, Truthy)

\* os.tmpdir()
Tmpdir == << "/", "t", "m", "p" >>

HexDigits ==
  << "0", "1", "2", "3", "4", "5", "6", "7",
     "8", "9", "a", "b", "c", "d", "e", "f" >>

RECURSIVE ToHex(_)
\* Buffer.toString("hex"): two lowercase digits per byte
ToHex(bytes) ==
  IF bytes = <<>> THEN <<>>
  ELSE << HexDigits[(Head(bytes) \div 16) + 1],
          HexDigits[(Head(bytes) % 16) + 1] >> \o ToHex(Tail(bytes))

\* randomBytes(16, ...): the number of bytes asked for
RandomByteCount == 16

\* buffers the random source can produce
RandomRaw == { [ i \in 1..RandomByteCount |-> (i * 37) % 256 ] }

\* values v4() can return
Uuids == { << "u", "1" >> }

\* ---------------------------------------------------------------- options
\* an option is absent, a string, or a user function
OptNone == [ kind |-> "none", val |-> <<>> ]
OptStr(s) == [ kind |-> "string", val |-> s ]
OptFn == [ kind |-> "function", val |-> <<>> ]
OptObj(v) == [ kind |-> "object", val |-> v ]

\* options.x || fallback: an absent option and the empty string are falsy
OptTruthy(o) ==
  o.kind \in { "function", "object" } \/ (o.kind = "string" /\ o.val # <<>>)

\* what a handler hands to its callback: (err, value)
Ok(v) == [ err |-> Null, val |-> v ]
Fail(e) == [ err |-> e, val |-> Undefined ]

\* the error a user-supplied handler reports
HandlerError ==
  [ destination |-> "Destination error",
    filename |-> "Filename error",
    key |-> "Key error",
    bucket |-> "Bucket error",
    acl |-> "Acl error",
    metadata |-> "Metadata error",
    contentType |-> "ContentType error",
    contentDisposition |-> "ContentDisposition error",
    cacheControl |-> "CacheControl error",
    storageClass |-> "StorageClass error",
    serverSideEncryption |-> "ServerSideEncryption error" ]

\* values a user-supplied handler passes on success
HandlerValues ==
  [ destination |-> { Undefined, << "u", "p" >> },
    filename |-> { <<>>, << "f" >> },
    key |-> { Undefined, << "k" >> },
    bucket |-> { Undefined, <<>>, << "b" >> },
    acl |-> { << "public-read" >> },
    metadata |-> { << "{meta}" >> },
    contentType |-> { << "image/png" >> },
    contentDisposition |-> { << "attachment" >> },
    cacheControl |-> { << "no-cache" >> },
    storageClass |-> { << "GLACIER" >> },
    serverSideEncryption |-> { << "AES256" >> } ]

\* a user-supplied handler calls back with its error or with a value
UserHandler(h) ==
  { Fail(HandlerError[h]) } \cup { Ok(v) : v \in HandlerValues[h] }

\* a value a user-supplied handler may pass when it is called a second time
\* for the same file, besides the values of its first call
AgainValue == << "gzip" >>

\* a user-supplied handler called a second time for the same file: a function
\* of the caller, free to answer the second call as the first or otherwise
UserHandlerAgain(h) == UserHandler(h) \cup { Ok(AgainValue) }

\* an option given as a string is wrapped into a handler that passes it, a
\* function is the handler itself, a falsy option leaves the fallback handler
StringOrUser(o, h, fallback) ==
  IF OptTruthy(o)
  THEN IF o.kind = "string" THEN { Ok(o.val) } ELSE UserHandler(h)
  ELSE fallback

\* getDestination: cb(null, tmpdir())
getDestination == { Ok(Tmpdir) }

\* a getFilename that encodes half of the random bytes
getFilename_Half ==
  { Fail("Random error") }
    \cup { Ok(ToHex(SubSeq(raw, 1, RandomByteCount \div 2))) : raw \in RandomRaw }

\* getFilename: randomBytes(16, ...) fails, or cb(null, raw.toString("hex"))
getFilename == { Fail("Random error") } \cup { Ok(ToHex(raw)) : raw \in RandomRaw }

\* ------------------------------------------------------------------ state
\* the upload operations tracked at once
Uploads == { 1 }

\* the files handed to _handleFile
Files ==
  { [ originalname |-> n, mimetype |-> << "text/plain" >>,
      fieldname |-> << "f", "i", "l", "e" >> ] : n \in Names }

\* the k-th chunk the stream of a file delivers: two files deliver the bytes
\* 7, 1, 0, 7, ... cut into chunks at different places, so their contents
\* differ after one chunk and are the same after two
StreamChunk(f, k) ==
  IF Len(f.originalname) > 1
  THEN IF k % 2 = 1 THEN << 7 >> ELSE << 1, 0 >>
  ELSE IF k % 2 = 1 THEN << 7, 1 >> ELSE << 0 >>

NoFile ==
  [ originalname |-> <<>>, mimetype |-> <<>>, fieldname |-> <<>> ]

\* no MemoryWritable constructed yet
NoSink == [ size |-> 0, chunks |-> <<>>, destroyed |-> FALSE ]

\* the completion callback was called without a second argument
NoInfo == [ none |-> TRUE ]

\* no entry under a key of inMemoryStorage
Absent == << -1 >>

VARIABLES
  store,      \* inMemoryStorage: key -> Buffer, for the keys present
  handled,    \* the number of _handleFile calls made so far
  removed,    \* the _removeFile calls made so far, the key of the last one
              \* and the invocations of its callback
  pc,         \* where each upload is: idle, resolving, piping,
              \* finished, failed (a handler's error was forwarded),
              \* stalled (the file stream failed)
  engine,     \* the engine that serves the uploads of the slot
  file,       \* the file argument
  options,    \* the options the engine was constructed with
  invoked,    \* the option handlers invoked so far, in order
  passed,     \* what each of them handed to its callback
  locals,     \* the values _handleFile holds once handlers are resolved
  sink,       \* the upload's MemoryWritable
  delivered,  \* the chunks the file stream has emitted
  calls,      \* the invocations of the completion callback
  mw,         \* a MemoryWritable driven directly, as the unit tests do
  mwWritten,  \* every chunk handed to it since construction, in call order
  mwLast,     \* the last call made on it and the error passed to destroy
  mwEvents,   \* the errors emitted on its 'error' event
  made,       \* the last constructor call: its options and what it threw
  named,      \* the last name resolution of FakeMulterCloudStorage on its own
  issued,     \* the last upload FakeMulterS3 completed before the one of
              \* the slot: what it delivered and the etag it was given
              \* (written where two uploads are compared, SpecS3)
  sized,      \* the last call of makeFile.size: its arguments and its outcome
  placed      \* the last blob FakeMulterCloudStorage located on its own: the
              \* calls of the two handlers and the constants of the result

mwVars == << mw, mwWritten, mwLast, mwEvents >>

uploadVars ==
  << pc, engine, file, options, invoked, passed, locals, sink, delivered,
     calls >>

\* the variables of the utilities that are looked at on their own
sideVars == << sized, placed >>

\* what the steps of an upload and the removals leave alone
restVars == << mwVars, made, named, issued, sideVars >>

vars == << store, handled, removed, uploadVars, restVars >>

\* ------------------------------------------------------------ Map helpers
\* Map.prototype.has / get
MapHas(m, k) == k \in DOMAIN m
MapGet(m, k) == IF k \in DOMAIN m THEN m[k] ELSE Absent

\* a set that leaves an entry alone once it is there
MapSet_KeepFirst(m, k, v) ==
  [ x \in (DOMAIN m) \cup { k } |-> IF x \in DOMAIN m THEN m[x] ELSE v ]

\* Map.prototype.set(k, v)
MapSet(m, k, v) ==
  [ x \in (DOMAIN m) \cup { k } |-> IF x = k THEN v ELSE m[x] ]

\* Map.prototype.delete(k)
MapDelete(m, k) == [ x \in (DOMAIN m) \ { k } |-> m[x] ]

EmptyMap == [ x \in {} |-> <<>> ]

Last(seq) == seq[Len(seq)]

\* ------------------------------------------------------- upload plumbing
\* a slot takes a new _handleFile call once its previous upload is over
CanStart(u) == pc[u] \in { "idle", "finished", "failed", "stalled" }

\* the state of a slot on entry to _handleFile
Begin(u, e, f, firstHandlers, firstPassed, w) ==
  /\ engine[u] = e
  /\ CanStart(u)
  /\ handled < MaxUploads
  /\ handled' = handled + 1
  /\ file' = [ file EXCEPT ![u] = f ]
  /\ UNCHANGED << engine, options >>
  /\ invoked' = [ invoked EXCEPT ![u] = firstHandlers ]
  /\ passed' = [ passed EXCEPT ![u] = firstPassed ]
  /\ sink' = [ sink EXCEPT ![u] = w ]
  /\ delivered' = [ delivered EXCEPT ![u] = <<>> ]
  /\ calls' = [ calls EXCEPT ![u] = <<>> ]

\* callback(err): the completion callback called with an error only
CallbackError(u, err) ==
  calls' = [ calls EXCEPT ![u] =
               Append(@, [ err |-> err, info |-> NoInfo, seen |-> Absent ]) ]

\* a finish listener that calls the completion callback twice
CallbackInfo_Twice(u, info, map) ==
  LET call == [ err |-> Null, info |-> info,
                seen |-> MapGet(map, file[u].originalname) ]
  IN calls' = [ calls EXCEPT ![u] = Append(Append(@, call), call) ]

\* callback(null, info), called when map is the content of inMemoryStorage
CallbackInfo(u, info, map) ==
  calls' = [ calls EXCEPT ![u] =
               Append(@, [ err |-> Null, info |-> info,
                           seen |-> MapGet(map, file[u].originalname) ]) ]

\* ------------------------------------------------------ FakeMulterStorage
DiskOptionSets ==
  { [ destination |-> d, filename |-> f ] :
      d \in { OptNone, OptStr(<<>>), OptStr(<< "/", "u" >>), OptFn },
      f \in { OptNone, OptFn } }

\* constructor: this.#getDestination
Disk_getDestination(opts) ==
  StringOrUser(opts.destination, "destination", getDestination)

\* constructor: this.#getFilename = options.filename || getFilename
Disk_getFilename(opts) ==
  IF OptTruthy(opts.filename) THEN UserHandler("filename") ELSE getFilename

\* a path joined without dropping the empty parts
Disk_mockPath_NoFilter(destination, filename) ==
  JoinWith(<< destination, filename >>, << "/" >>)

\* const mockPath = [destination, filename].filter(Boolean).join("/")
Disk_mockPath(destination, filename) ==
  JoinWith(FilterTruthy(<< destination, filename >>), << "/" >>)

\* _handleFile: calls this.#getDestination
Disk_handleFile(u, f) ==
  /\ Begin(u, "disk", f, << "destination" >>, <<>>, NoSink)
  /\ pc' = [ pc EXCEPT ![u] = "resolving" ]
  /\ locals' = [ locals EXCEPT ![u] = EmptyMap ]
  /\ UNCHANGED << store, removed, restVars >>

\* the callback handed to #getDestination
Disk_onDestination(u) ==
  /\ pc[u] = "resolving" /\ engine[u] = "disk"
  /\ Last(invoked[u]) = "destination"
  /\ \E o \in Disk_getDestination(options[u]) :
       /\ passed' = [ passed EXCEPT ![u] = Append(@, o) ]
       /\ IF o.err # Null
          THEN /\ CallbackError(u, o.err)
               /\ pc' = [ pc EXCEPT ![u] = "failed" ]
               /\ UNCHANGED << invoked, locals >>
          ELSE /\ locals' = [ locals EXCEPT ![u] =
                      MapSet(@, "destination", DefaultParam(o.val, <<>>)) ]
               /\ invoked' = [ invoked EXCEPT ![u] = Append(@, "filename") ]
               /\ UNCHANGED << calls, pc >>
       /\ UNCHANGED << store, handled, removed, engine, file, options, sink, delivered,
                       restVars >>

\* the callback handed to #getFilename: builds the sink and pipes into it
Disk_onFilename(u) ==
  /\ pc[u] = "resolving" /\ engine[u] = "disk"
  /\ Last(invoked[u]) = "filename"
  /\ \E o \in Disk_getFilename(options[u]) :
       /\ passed' = [ passed EXCEPT ![u] = Append(@, o) ]
       /\ IF o.err # Null
          THEN /\ CallbackError(u, o.err)
               /\ pc' = [ pc EXCEPT ![u] = "failed" ]
               /\ UNCHANGED << locals, sink >>
          ELSE /\ LET filename == DefaultParam(o.val, <<>>) IN
                  locals' = [ locals EXCEPT ![u] =
                    MapSet(MapSet(@, "filename", filename), "path",
                           Disk_mockPath(@["destination"], filename)) ]
               /\ sink' = [ sink EXCEPT ![u] = MW_New ]
               /\ pc' = [ pc EXCEPT ![u] = "piping" ]
               /\ UNCHANGED calls
       /\ UNCHANGED << store, handled, removed, engine, file, options, invoked, delivered,
                       restVars >>

\* writableStream.on("finish", ...): the file stream ended, the sink
\* finished; once the listeners have run, the sink is destroyed (autoDestroy)
Disk_onFinish(u) ==
  /\ pc[u] = "piping" /\ engine[u] = "disk"
  /\ LET map == MapSet(store, file[u].originalname, MW_getBuffer(sink[u]))
     IN /\ store' = map
        /\ CallbackInfo(u, [ destination |-> locals[u]["destination"],
                             filename |-> locals[u]["filename"],
                             path |-> locals[u]["path"],
                             size |-> sink[u].size ], map)
  /\ sink' = [ sink EXCEPT ![u] = MW_destroy(@) ]
  /\ pc' = [ pc EXCEPT ![u] = "finished" ]
  /\ UNCHANGED << handled, removed, engine, file, options, invoked, passed, locals,
                  delivered, restVars >>

\* ----------------------------------------------------------- FakeMulterS3
S3Defaults ==
  [ s3 |-> TRUE, bucket |-> OptStr(<< "b", "k", "t" >>), key |-> OptNone,
    acl |-> OptNone, metadata |-> OptNone, contentType |-> OptNone,
    contentDisposition |-> OptNone, cacheControl |-> OptNone,
    storageClass |-> OptNone, serverSideEncryption |-> OptNone ]

S3Functions ==
  [ s3 |-> TRUE, bucket |-> OptFn, key |-> OptFn,
    acl |-> OptFn, metadata |-> OptFn, contentType |-> OptFn,
    contentDisposition |-> OptFn, cacheControl |-> OptFn,
    storageClass |-> OptFn, serverSideEncryption |-> OptFn ]

\* every option that takes a string given as a non-empty string
S3Strings ==
  [ S3Defaults EXCEPT
      !.acl = OptStr(<< "public-read" >>),
      !.contentType = OptStr(<< "image/png" >>),
      !.contentDisposition = OptStr(<< "attachment" >>),
      !.cacheControl = OptStr(<< "no-cache" >>),
      !.storageClass = OptStr(<< "GLACIER" >>),
      !.serverSideEncryption = OptStr(<< "AES256" >>) ]

\* every option that may be empty given as the empty string
S3Empties ==
  [ S3Defaults EXCEPT
      !.acl = OptStr(<<>>),
      !.contentType = OptStr(<<>>),
      !.contentDisposition = OptStr(<<>>),
      !.cacheControl = OptStr(<<>>),
      !.storageClass = OptStr(<<>>),
      !.serverSideEncryption = OptStr(<<>>) ]

S3OptionSets == { S3Defaults, S3Functions, S3Strings, S3Empties }

\* a constructor that looks at the bucket before it looks at the client
S3_new_BucketFirst(opts) ==
  IF ~ OptTruthy(opts.bucket) THEN "TypeError: bucket is required"
  ELSE IF ~ opts.s3 THEN "TypeError: Expected opts.s3 to be object"
  ELSE Null

\* constructor: what it throws, Null when it returns; opts.s3 tells whether
\* an S3 client was given
S3_new(opts) ==
  IF ~ opts.s3 THEN "TypeError: Expected opts.s3 to be object"
  ELSE IF ~ OptTruthy(opts.bucket) THEN "TypeError: bucket is required"
  ELSE Null

\* the nesting with the bucket resolved before the key
S3Order_BucketFirst ==
  << "bucket", "key", "acl", "metadata", "contentType",
     "contentDisposition", "cacheControl", "storageClass",
     "serverSideEncryption", "contentEncoding" >>

\* the order in which _handleFile nests the handlers
S3Order ==
  << "key", "bucket", "acl", "metadata", "contentType",
     "contentDisposition", "cacheControl", "storageClass",
     "serverSideEncryption", "contentEncoding" >>

\* handlers whose last one is the #getContentEncoding the class starts with,
\* whatever the options are
S3_handler_OwnEncoding(opts, f, h) ==
  CASE h = "key" ->
         IF OptTruthy(opts.key) THEN UserHandler("key") ELSE getFilename
    [] h = "bucket" ->
         StringOrUser(opts.bucket, "bucket", { Ok(<<>>) })
    [] h = "acl" ->
         StringOrUser(opts.acl, "acl", { Ok(<< "private" >>) })
    [] h = "metadata" ->
         IF OptTruthy(opts.metadata) THEN UserHandler("metadata")
         ELSE { Ok(JsNull) }
    [] h = "contentType" ->
         StringOrUser(opts.contentType, "contentType", { Ok(f.mimetype) })
    [] h = "contentDisposition" ->
         StringOrUser(opts.contentDisposition, "contentDisposition",
                      { Ok(JsNull) })
    [] h = "cacheControl" ->
         StringOrUser(opts.cacheControl, "cacheControl", { Ok(JsNull) })
    [] h = "storageClass" ->
         StringOrUser(opts.storageClass, "storageClass",
                      { Ok(<< "STANDARD" >>) })
    [] h = "serverSideEncryption" ->
         StringOrUser(opts.serverSideEncryption, "serverSideEncryption",
                      { Ok(JsNull) })
    [] h = "contentEncoding" ->
         { Ok(JsNull) }

\* the handlers the constructor installs, by the name of the private field
S3_handler(opts, f, h) ==
  CASE h = "key" ->
         IF OptTruthy(opts.key) THEN UserHandler("key") ELSE getFilename
    [] h = "bucket" ->
         StringOrUser(opts.bucket, "bucket", { Ok(<<>>) })
    [] h = "acl" ->
         StringOrUser(opts.acl, "acl", { Ok(<< "private" >>) })
    [] h = "metadata" ->
         IF OptTruthy(opts.metadata) THEN UserHandler("metadata")
         ELSE { Ok(JsNull) }
    [] h = "contentType" ->
         StringOrUser(opts.contentType, "contentType", { Ok(f.mimetype) })
    [] h = "contentDisposition" ->
         StringOrUser(opts.contentDisposition, "contentDisposition",
                      { Ok(JsNull) })
    [] h = "cacheControl" ->
         StringOrUser(opts.cacheControl, "cacheControl", { Ok(JsNull) })
    [] h = "storageClass" ->
         StringOrUser(opts.storageClass, "storageClass",
                      { Ok(<< "STANDARD" >>) })
    [] h = "serverSideEncryption" ->
         StringOrUser(opts.serverSideEncryption, "serverSideEncryption",
                      { Ok(JsNull) })
    [] h = "contentEncoding" ->
         \* const contentEncoding = options.contentType || ...: the handler
         \* of contentType once more, called after the nine others
         IF OptTruthy(opts.contentType)
         THEN IF opts.contentType.kind = "string"
              THEN { Ok(opts.contentType.val) }
              ELSE UserHandlerAgain("contentType")
         ELSE { Ok(JsNull) }

\* createHash("md5").update(buffer).digest("hex"), kept symbolic: a digest
\* is determined by the bytes digested and by nothing else
Md5Hex(bytes) == << "md5:" >> \o ToHex(bytes)

\* an etag that digests the length of the content, not its bytes
S3_etag_OfLength(buffer) ==
  << "\"" >> \o Md5Hex(<< Len(buffer) >>) \o << "\"" >>

\* const etag = `"${createHash("md5").update(buffer).digest("hex")}"`
S3_etag(buffer) == << "\"" >> \o Md5Hex(buffer) \o << "\"" >>

\* a location whose host always starts with the bucket and a dot
S3_location_AlwaysDot(bucket, key) ==
  << "https://" >> \o bucket \o << ".", "s3.amazonaws.com" >>
    \o << "/" >> \o key

\* const url = [bucket, "s3.amazonaws.com"].filter(Boolean).join(".");
\* const location = `https://${url}/${key}`
S3_location(bucket, key) ==
  LET url == JoinWith(FilterTruthy(<< bucket, << "s3.amazonaws.com" >> >>),
                      << "." >>)
  IN << "https://" >> \o url \o << "/" >> \o key

\* what the callback of the upload that finished in slot u was given, with
\* what the upload delivered
S3_returned(u) ==
  [ originalname |-> file[u].originalname,
    key |-> calls[u][1].info.key,
    chunks |-> delivered[u],
    bytes |-> calls[u][1].seen,
    etag |-> calls[u][1].info.etag,
    versionId |-> calls[u][1].info.versionId ]

\* _handleFile: builds the sink, then calls this.#getKey; noted is what an
\* observer of the calls remembers of the uploads before this one
S3_handleFileNoting(u, f, noted) ==
  /\ Begin(u, "s3", f, << S3Order[1] >>, <<>>, MW_New)
  /\ pc' = [ pc EXCEPT ![u] = "resolving" ]
  /\ locals' = [ locals EXCEPT ![u] = EmptyMap ]
  /\ issued' = noted
  /\ UNCHANGED << store, removed, mwVars, made, named, sideVars >>

\* _handleFile
S3_handleFile(u, f) == S3_handleFileNoting(u, f, issued)

\* _handleFile, called where the results are compared: the result of the
\* upload that finished in the slot is remembered
S3_handleFileAfter(u, f) ==
  S3_handleFileNoting(u, f, IF pc[u] = "finished" THEN { S3_returned(u) }
                            ELSE issued)

\* the callback handed to the handler called last; the innermost one
\* registers the listeners and pipes the file stream into the sink
S3_onHandler(u) ==
  /\ pc[u] = "resolving" /\ engine[u] = "s3"
  /\ \E o \in S3_handler(options[u], file[u], Last(invoked[u])) :
       /\ passed' = [ passed EXCEPT ![u] = Append(@, o) ]
       /\ IF o.err # Null
          THEN /\ CallbackError(u, o.err)
               /\ pc' = [ pc EXCEPT ![u] = "failed" ]
               /\ UNCHANGED << invoked, locals >>
          ELSE /\ LET h == Last(invoked[u])
                      v == IF h \in { "key", "bucket" }
                           THEN DefaultParam(o.val, <<>>) ELSE o.val
                  IN locals' = [ locals EXCEPT ![u] = MapSet(@, h, v) ]
               /\ IF Len(invoked[u]) < Len(S3Order)
                  THEN /\ invoked' = [ invoked EXCEPT ![u] =
                                         Append(@, S3Order[Len(@) + 1]) ]
                       /\ UNCHANGED pc
                  ELSE /\ pc' = [ pc EXCEPT ![u] = "piping" ]
                       /\ UNCHANGED invoked
               /\ UNCHANGED calls
       /\ UNCHANGED << store, handled, removed, engine, file, options, sink,
                       delivered, restVars >>

\* writableStream.on("finish", ...)
S3_onFinish(u, versionId) ==
  /\ pc[u] = "piping" /\ engine[u] = "s3"
  /\ LET buffer == MW_getBuffer(sink[u])
         etag == S3_etag(buffer)
         location == S3_location(locals[u]["bucket"], locals[u]["key"])
         size == sink[u].size
         map == MapSet(store, file[u].originalname, buffer)
     IN /\ store' = map
        /\ CallbackInfo(u,
             [ size |-> size, location |-> location,
               bucket |-> locals[u]["bucket"], key |-> locals[u]["key"],
               acl |-> locals[u]["acl"],
               contentType |-> locals[u]["contentType"],
               contentDisposition |-> locals[u]["contentDisposition"],
               contentEncoding |-> locals[u]["contentEncoding"],
               storageClass |-> locals[u]["storageClass"],
               serverSideEncryption |-> locals[u]["serverSideEncryption"],
               metadata |-> locals[u]["metadata"],
               etag |-> etag, versionId |-> versionId ], map)
  /\ sink' = [ sink EXCEPT ![u] = MW_destroy(@) ]
  /\ pc' = [ pc EXCEPT ![u] = "finished" ]
  /\ UNCHANGED << handled, removed, engine, file, options, invoked, passed,
                  locals, delivered, restVars >>

\* -------------------------------------------------- FakeMulterCloudStorage
GcsOptionSets ==
  { [ bucket |-> << "g", "b" >>, destination |-> d, filename |-> f,
      hideFilename |-> FALSE, uniformBucketLevelAccess |-> FALSE,
      contentType |-> OptNone ] :
      d \in { OptNone, OptFn }, f \in { OptNone, OptFn } }
  \cup
  { [ bucket |-> << "g", "b" >>,
      destination |-> OptStr(<< ".", "/", "d", "/" >>), filename |-> OptNone,
      hideFilename |-> h, uniformBucketLevelAccess |-> FALSE,
      contentType |-> OptNone ] : h \in BOOLEAN }

\* a handler called by #getBlobFileReference calls back before it returns
\* or at some later time
Sync(o) == [ when |-> "sync", out |-> o ]
Later == [ when |-> "later", out |-> Ok(Undefined) ]

\* the calls a handler can make: a user function may also call back later
GcsCalls(o, builtIn, outcomes) ==
  { Sync(x) : x \in outcomes }
    \cup IF ~ builtIn /\ o.kind = "function" THEN { Later } ELSE {}

\* a #sanitizeFilename that leaves line breaks in place
Gcs_sanitizeFilename_KeepBreaks(filename, uuid) ==
  IF ~ Truthy(filename) THEN uuid
  ELSE StripLeading(StripLeading(filename, { "." }), { "/" })

\* #sanitizeFilename
Gcs_sanitizeFilename(filename, uuid) ==
  IF ~ Truthy(filename) THEN uuid
  ELSE LET stripped == StripLeading(StripLeading(filename, { "." }), { "/" })
       IN [ i \in 1..Len(stripped) |->
              IF stripped[i] \in { "\r", "\n" } THEN "_" ELSE stripped[i] ]

\* typeof v === "string", for a string, null or undefined
IsString(v) == v # Undefined /\ v # JsNull

\* the built-in #getFilename: the original name when it is a string, else a
\* UUID
Gcs_defaultFilename(f) ==
  IF IsString(f.originalname) THEN { Ok(f.originalname) }
  ELSE { Ok(id) : id \in Uuids }

\* a #getFilename in which a configured filename overrides hideFilename
Gcs_getFilenameFrom_NameFirst(opts, f, userOutcomes) ==
  IF OptTruthy(opts.filename)
  THEN IF opts.filename.kind = "string" THEN { Ok(opts.filename.val) }
       ELSE userOutcomes
  ELSE IF opts.hideFilename THEN { Ok(id) : id \in Uuids }
  ELSE Gcs_defaultFilename(f)

\* #getFilename as the constructor leaves it, for a user function with the
\* given outcomes
Gcs_getFilenameFrom(opts, f, userOutcomes) ==
  IF opts.hideFilename THEN { Ok(id) : id \in Uuids }
  ELSE IF OptTruthy(opts.filename)
  THEN IF opts.filename.kind = "string" THEN { Ok(opts.filename.val) }
       ELSE userOutcomes
  ELSE Gcs_defaultFilename(f)

\* #getFilename as the constructor leaves it
Gcs_getFilename(opts, f) ==
  Gcs_getFilenameFrom(opts, f, UserHandler("filename"))

\* #getDestination as the constructor leaves it
Gcs_getDestination(opts) ==
  StringOrUser(opts.destination, "destination", { Ok(<<>>) })

\* #getContentType(req, file): the values it can return
Gcs_getContentType(opts, f) ==
  IF opts.hideFilename THEN { Undefined }
  ELSE IF opts.uniformBucketLevelAccess
       THEN { << "application/octet-stream" >> }
  ELSE IF OptTruthy(opts.contentType)
       THEN IF opts.contentType.kind = "function"
            THEN HandlerValues["contentType"]
            ELSE { opts.contentType.val }
  ELSE { f.mimetype }

\* #getBlobFileReference: the destination and filename of the blobFile it
\* returns; a callback that reports an error, or that runs after the return,
\* leaves the field at ""
Gcs_getBlobFileReference(dCall, fCall, uuid) ==
  LET destination == DefaultParam(dCall.out.val, <<>>)
      escDestination ==
        StripTrailing(StripLeading(StripLeading(destination, { "." }),
                                   { "/" }), { "/" })
      name == Gcs_sanitizeFilename(DefaultParam(fCall.out.val, <<>>), uuid)
  IN [ destination |->
         IF dCall.when = "sync" /\ dCall.out.err = Null
            /\ escDestination # <<>>
         THEN escDestination \o << "/" >> ELSE <<>>,
       filename |->
         IF fCall.when = "sync" /\ fCall.out.err = Null
         THEN SubSeq(name, LastIndexOf(name, "/") + 1, Len(name))
         ELSE <<>> ]

\* _handleFile, from the blob file reference to the constants the finish
\* listener puts in the result: path, bucket, storage, linkUrl, selfLink, uri
Gcs_location(opts, ref) ==
  LET path == JoinWith(FilterTruthy(<< ref.destination, ref.filename >>),
                       << "/" >>)
      bucket == IF Truthy(opts.bucket) THEN opts.bucket ELSE <<>>
      storage == JoinWith(FilterTruthy(<< bucket, path >>), << "/" >>)
  IN [ bucket |-> bucket, destination |-> ref.destination,
       filename |-> ref.filename, path |-> path,
       uri |-> << "gs://" >> \o storage,
       linkUrl |-> << "https://storage.googleapis.com/" >> \o storage,
       selfLink |-> << "https://storage.googleapis.com/" >> \o storage ]

\* _handleFile: resolves the names, builds the sink and pipes into it
Gcs_handleFile(u, f) ==
  /\ engine[u] = "gcs"
  /\ LET opts == options[u] IN
     \E dCall \in GcsCalls(opts.destination, FALSE, Gcs_getDestination(opts)),
     fCall \in GcsCalls(opts.filename, opts.hideFilename,
                        Gcs_getFilename(opts, f)),
     uuid \in Uuids :
       /\ Begin(u, "gcs", f, << "destination", "filename" >>,
                << dCall, fCall >>, MW_New)
       /\ locals' = [ locals EXCEPT ![u] =
            Gcs_location(opts, Gcs_getBlobFileReference(dCall, fCall, uuid)) ]
       /\ pc' = [ pc EXCEPT ![u] = "piping" ]
       /\ UNCHANGED << store, removed, restVars >>

\* writableStream.on("finish", ...)
Gcs_onFinish(u) ==
  /\ pc[u] = "piping" /\ engine[u] = "gcs"
  /\ \E contentType \in Gcs_getContentType(options[u], file[u]) :
       LET map == MapSet(store, file[u].originalname, MW_getBuffer(sink[u]))
       IN /\ store' = map
          /\ CallbackInfo(u,
               [ bucket |-> locals[u].bucket,
                 destination |-> locals[u].destination,
                 filename |-> locals[u].filename,
                 path |-> locals[u].path,
                 contentType |-> contentType,
                 size |-> sink[u].size,
                 uri |-> locals[u].uri,
                 linkUrl |-> locals[u].linkUrl,
                 selfLink |-> locals[u].selfLink ], map)
  /\ sink' = [ sink EXCEPT ![u] = MW_destroy(@) ]
  /\ pc' = [ pc EXCEPT ![u] = "finished" ]
  /\ UNCHANGED << handled, removed, engine, file, options, invoked, passed,
                  locals, delivered, restVars >>

\* ---------------------------------------------- FakeMulterAzureBlobStorage
VALID_AZURE_API_VERSIONS ==
  << "2025-05-05", "2025-01-05", "2024-11-04", "2024-08-04", "2024-05-04",
     "2024-02-04", "2023-11-03", "2023-08-03", "2023-01-03", "2022-11-02",
     "2021-12-02", "2021-10-04", "2021-08-06", "2021-06-08", "2021-04-10",
     "2021-02-12", "2020-12-06", "2020-10-02", "2020-08-04", "2020-06-12",
     "2020-04-08", "2020-02-10", "2019-12-12", "2019-10-10", "2019-07-07",
     "2019-02-02", "2018-11-09", "2018-03-28", "2017-11-09", "2017-07-29",
     "2017-04-17", "2016-05-31", "2015-12-11", "2015-07-08", "2015-04-05",
     "2015-02-21", "2014-02-14", "2013-08-15", "2012-02-12", "2011-08-18",
     "2009-09-19", "2009-07-17", "2009-04-14" >>

VALID_AZURE_BLOB_AUDIENCE == << "storage.azure.com", "blob.core.windows.net" >>

\* getRandomIndex(max): Math.floor(Math.random() * max); the lowest and the
\* highest index it can return
getRandomIndex(max) == { 0, max - 1 }

AzureOptionSets ==
  { [ containerName |-> << "c" >>, accountName |-> << "a", "c" >>,
      metadata |-> OptNone ],
    [ containerName |-> << "c" >>, accountName |-> << "a", "c" >>,
      metadata |-> OptObj(<< "{obj}" >>) ],
    [ containerName |-> << "c" >>, accountName |-> Undefined,
      metadata |-> OptFn ] }

\* a constructor that also insists on an account name
Azure_new_NeedsAccount(opts) ==
  IF ~ Truthy(opts.containerName) \/ ~ Truthy(opts.accountName)
  THEN "Error: Missing required parameter: Azure container name."
  ELSE Null

\* constructor: what it throws, Null when it returns
Azure_new(opts) ==
  IF ~ Truthy(opts.containerName)
  THEN "Error: Missing required parameter: Azure container name."
  ELSE Null

\* a constructor that wraps no metadata object: an object is treated as if
\* no metadata were configured
Azure_getMetadata_NoObject(opts) ==
  IF OptTruthy(opts.metadata) /\ opts.metadata.kind # "object"
  THEN UserHandler("metadata")
  ELSE { Ok(<< "{}" >>) }

\* #getMetadata as the constructor leaves it: the promise it returns
\* resolves (err is null) or rejects
Azure_getMetadata(opts) ==
  IF OptTruthy(opts.metadata)
  THEN IF opts.metadata.kind = "object" THEN { Ok(opts.metadata.val) }
       ELSE UserHandler("metadata")
  ELSE { Ok(<< "{}" >>) }

\* a signature whose query does not say which resource it is for
Azure_sharedAccessSignature_NoResource(sv, sig) ==
  << "sp=r", "&", "st=", "<now>", "&", "se=", "<now+expiry>", "&",
     "sv=", sv, "&", "sig=" >> \o sig

\* new URLSearchParams({ sp, st, se, sv, sr, sig }).toString(); the two
\* timestamps are kept symbolic
Azure_sharedAccessSignature(sv, sig) ==
  << "sp=r", "&", "st=", "<now>", "&", "se=", "<now+expiry>", "&",
     "sv=", sv, "&", "sr=b", "&", "sig=" >> \o sig

\* _handleFile up to the await: builds the sink, names the blob and calls
\* this.#getMetadata
Azure_handleFile(u, f) ==
  \E uuid \in Uuids :
    /\ Begin(u, "azure", f, << "metadata" >>, <<>>, MW_New)
    /\ locals' = [ locals EXCEPT ![u] =
         [ container |-> options[u].containerName,
           blobName |-> f.fieldname \o << "-" >> \o uuid
                          \o ExtName(f.originalname) ] ]
    /\ pc' = [ pc EXCEPT ![u] = "resolving" ]
    /\ UNCHANGED << store, removed, restVars >>

\* _handleFile after the await: a rejection lands in the catch block;
\* otherwise the url is built and the file stream piped into the sink
Azure_onMetadata(u) ==
  /\ pc[u] = "resolving" /\ engine[u] = "azure"
  /\ \E o \in Azure_getMetadata(options[u]) :
       /\ passed' = [ passed EXCEPT ![u] = Append(@, o) ]
       /\ IF o.err # Null
          THEN /\ CallbackError(u, o.err)
               /\ pc' = [ pc EXCEPT ![u] = "failed" ]
               /\ UNCHANGED locals
          ELSE /\ \E a \in getRandomIndex(Len(VALID_AZURE_BLOB_AUDIENCE)),
                    v \in getRandomIndex(Len(VALID_AZURE_API_VERSIONS)),
                    sig \in Uuids :
                    LET audience == << VALID_AZURE_BLOB_AUDIENCE[a + 1] >>
                        storage ==
                          JoinWith(FilterTruthy(<< options[u].accountName,
                                                   audience >>), << "." >>)
                        blob == << "https://" >> \o storage \o << "/" >>
                                  \o locals[u].container \o << "/" >>
                                  \o locals[u].blobName
                        sas == Azure_sharedAccessSignature(
                                 VALID_AZURE_API_VERSIONS[v + 1], sig)
                    IN locals' = [ locals EXCEPT ![u] =
                         [ container |-> @.container,
                           blobName |-> @.blobName,
                           metadata |-> o.val,
                           url |-> blob \o << "?" >> \o sas ] ]
               /\ pc' = [ pc EXCEPT ![u] = "piping" ]
               /\ UNCHANGED calls
  /\ UNCHANGED << store, handled, removed, engine, file, options, invoked,
                  sink, delivered, restVars >>

\* writableStream.on("finish", ...)
Azure_onFinish(u) ==
  /\ pc[u] = "piping" /\ engine[u] = "azure"
  /\ \E uuid \in Uuids :
       LET buffer == MW_getBuffer(sink[u])
           map == MapSet(store, file[u].originalname, buffer)
       IN /\ store' = map
          /\ CallbackInfo(u,
               [ url |-> locals[u].url,
                 blobName |-> locals[u].blobName,
                 etag |-> << "\"" >> \o uuid \o << "\"" >>,
                 blobType |-> << "BlockBlob" >>,
                 metadata |-> locals[u].metadata,
                 container |-> locals[u].container,
                 blobSize |-> sink[u].size ], map)
  /\ sink' = [ sink EXCEPT ![u] = MW_destroy(@) ]
  /\ pc' = [ pc EXCEPT ![u] = "finished" ]
  /\ UNCHANGED << handled, removed, engine, file, options, invoked, passed,
                  locals, delivered, restVars >>

\* ------------------------------------------------------- the file stream
\* file.stream.pipe(writableStream): a chunk arrives and is written
StreamData(u) ==
  /\ pc[u] = "piping"
  /\ Len(delivered[u]) < MaxChunks
  /\ LET chunk == StreamChunk(file[u], Len(delivered[u]) + 1)
     IN /\ sink' = [ sink EXCEPT ![u] = MW_write(@, chunk) ]
        /\ delivered' = [ delivered EXCEPT ![u] = Append(@, chunk) ]
  /\ UNCHANGED << store, handled, removed, pc, engine, file, options, invoked, passed,
                  locals, calls, restVars >>

\* the file stream emits 'error': pipe() stops feeding the sink and does not
\* end it, and no engine listens for errors of file.stream
StreamError(u) ==
  /\ pc[u] = "piping"
  /\ pc' = [ pc EXCEPT ![u] = "stalled" ]
  /\ UNCHANGED << store, handled, removed, engine, file, options, invoked, passed,
                  locals, sink, delivered, calls, restVars >>

\* --------------------------------------------------------------- removal
\* a removal that empties the whole store
RemoveEntry_Clear(name) ==
  /\ removed.count < MaxRemoves
  /\ store' = EmptyMap
  /\ removed' = [ count |-> removed.count + 1, name |-> name,
                  calls |-> << Null >> ]
  /\ UNCHANGED << handled, uploadVars, restVars >>

\* inMemoryStorage.delete(originalname); callback(null)
RemoveEntry(name) ==
  /\ removed.count < MaxRemoves
  /\ store' = MapDelete(store, name)
  /\ removed' = [ count |-> removed.count + 1, name |-> name,
                  calls |-> << Null >> ]
  /\ UNCHANGED << handled, uploadVars, restVars >>

\* the engine that was constructed is of kind e: its methods can be called
Constructed(e) == \E u \in Uploads : engine[u] = e

\* FakeMulterStorage._removeFile
Disk_removeFile(f) == Constructed("disk") /\ RemoveEntry(f.originalname)

\* FakeMulterS3._removeFile
S3_removeFile(f) == Constructed("s3") /\ RemoveEntry(f.originalname)

\* FakeMulterCloudStorage._removeFile
Gcs_removeFile(f) == Constructed("gcs") /\ RemoveEntry(f.originalname)

\* FakeMulterAzureBlobStorage._removeFile
Azure_removeFile(f) == Constructed("azure") /\ RemoveEntry(f.originalname)

\* ------------------------------------------- MemoryWritable, stand-alone
\* lists of chunks _writev can be handed
ChunkLists ==
  { <<>> } \cup { <<c>> : c \in ChunkSet }
           \cup { <<c, d>> : c \in ChunkSet, d \in ChunkSet }

\* the error a failing file stream emits
StreamFailure == "Stream error"

\* errors destroy() is called with; Null when it is called without one
DestroyErrors == { Null, "Test error" }

\* memoryWritable._write(chunk, ...)
MWWrite(chunk) ==
  /\ Len(mwWritten) < MaxWrites
  /\ mw' = MW_write(mw, chunk)
  /\ mwWritten' = Append(mwWritten, chunk)
  /\ mwLast' = [ op |-> "write", error |-> Null ]
  /\ UNCHANGED << mwEvents, store, handled, removed, uploadVars, made, named,
                  issued, sideVars >>

\* memoryWritable._writev(chunks, ...)
MWWritev(list) ==
  /\ Len(mwWritten) + Len(list) <= MaxWrites
  /\ mw' = MW_writev(mw, list)
  /\ mwWritten' = mwWritten \o list
  /\ mwLast' = [ op |-> "writev", error |-> Null ]
  /\ UNCHANGED << mwEvents, store, handled, removed, uploadVars, made, named,
                  issued, sideVars >>

\* memoryWritable.destroy(error): Writable.destroy returns early on a stream
\* that is already destroyed; otherwise it runs _destroy and emits the error
\* that _destroy hands to its callback
MWDestroy(error) ==
  /\ ~ mw.destroyed
  /\ mw' = MW_destroy(mw)
  /\ mwLast' = [ op |-> "destroy", error |-> error ]
  /\ mwEvents' = IF MW_destroyCallback(error) # Null
                 THEN Append(mwEvents, MW_destroyCallback(error))
                 ELSE mwEvents
  /\ UNCHANGED << mwWritten, store, handled, removed, uploadVars, made, named,
                  issued, sideVars >>

\* ------------------------------- FakeMulterCloudStorage names, on their own
\* names a file or a filename option can carry: plain, with directories,
\* with dots in front, inside and behind, with line breaks, empty
RichNames ==
  { << "t", ".", "x" >>,
    << ".", ".", "/", "a" >>,
    << "a", "/", "b" >>,
    << "a", "\r", "b", "\n" >>,
    << "a", ".", ".", "b" >>,
    << "x", "/", ".", "." >>,
    << "." >>,
    << "a", "/" >>,
    <<>> }

\* files whose original name is one of these, or is not a string
RichFiles ==
  { [ originalname |-> n, mimetype |-> << "text/plain" >>,
      fieldname |-> << "f", "i", "l", "e" >> ] :
      n \in RichNames \cup { JsNull } }

\* the options that take part in naming
GcsNameOptions ==
  { [ bucket |-> << "g", "b" >>, destination |-> OptNone, filename |-> n,
      hideFilename |-> h, uniformBucketLevelAccess |-> FALSE,
      contentType |-> OptNone ] :
      n \in { OptNone, OptFn } \cup { OptStr(x) : x \in RichNames },
      h \in BOOLEAN }

\* what a filename function can do: report an error, pass a name, pass
\* nothing
RichOutcomes ==
  { Fail(HandlerError["filename"]), Ok(Undefined) }
    \cup { Ok(n) : n \in RichNames }

\* no name has been resolved
NotNamed ==
  [ options |-> [ none |-> TRUE ], file |-> NoFile, call |-> Later,
    uuid |-> <<>>, filename |-> <<>>, contentType |-> <<>> ]

\* the filename and the content type _handleFile reports for a file:
\* #getBlobFileReference(req, file).filename and #getContentType(req, file)
Gcs_resolve(opts, f) ==
  /\ \E dCall \in GcsCalls(opts.destination, FALSE, Gcs_getDestination(opts)),
        fCall \in GcsCalls(opts.filename, opts.hideFilename,
                           Gcs_getFilenameFrom(opts, f, RichOutcomes)),
        uuid \in Uuids,
        contentType \in Gcs_getContentType(opts, f) :
       named' =
         [ options |-> opts, file |-> f, call |-> fCall, uuid |-> uuid,
           filename |-> Gcs_getBlobFileReference(dCall, fCall, uuid).filename,
           contentType |-> contentType ]
  /\ UNCHANGED << store, handled, removed, uploadVars, mwVars, made, issued, sideVars >>

\* ------------------------------ FakeMulterCloudStorage places, on their own
\* a handler calls back after #getBlobFileReference has returned, with o
LateCall(o) == [ when |-> "later", out |-> o ]

\* the calls a handler can make, with what a late call passes
GcsCallsInFull(o, outcomes) ==
  { Sync(x) : x \in outcomes }
    \cup IF o.kind = "function" THEN { LateCall(x) : x \in outcomes } ELSE {}

\* destinations an option or a destination function can carry: plain, with
\* dots and slashes in front, slashes behind and inside, empty
RichDestinations ==
  { << "u", "p" >>,
    << ".", "/", "d", "/" >>,
    << "/", "a", "/", "b", "/" >>,
    << ".", ".", "/" >>,
    <<>> }

\* what a destination function can do: report an error, pass a destination,
\* pass nothing
DestinationOutcomes ==
  { Fail(HandlerError["destination"]), Ok(Undefined) }
    \cup { Ok(d) : d \in RichDestinations }

\* the options that take part in locating a blob
GcsPlaceOptions ==
  { [ bucket |-> << "g", "b" >>, destination |-> d, filename |-> n,
      hideFilename |-> FALSE, uniformBucketLevelAccess |-> FALSE,
      contentType |-> OptNone ] :
      d \in { OptNone, OptFn } \cup { OptStr(x) : x \in RichDestinations },
      n \in { OptNone, OptFn } }

\* no blob has been located
NotPlaced ==
  [ options |-> [ none |-> TRUE ], file |-> NoFile, dCall |-> Later,
    fCall |-> Later, at |-> [ none |-> TRUE ] ]

\* what _handleFile puts in the result of a file before it pipes the stream:
\* the blob file reference and the path and links made from it
Gcs_locate(opts, f) ==
  /\ \E dCall \in GcsCallsInFull(opts.destination,
                                 Gcs_getDestination(opts)
                                   \cup IF opts.destination.kind = "function"
                                        THEN DestinationOutcomes ELSE {}),
        fCall \in GcsCallsInFull(opts.filename, Gcs_getFilename(opts, f)),
        uuid \in Uuids :
       placed' =
         [ options |-> opts, file |-> f, dCall |-> dCall, fCall |-> fCall,
           at |-> Gcs_location(opts,
                               Gcs_getBlobFileReference(dCall, fCall, uuid)) ]
  /\ UNCHANGED << store, handled, removed, uploadVars, mwVars, made, named,
                  issued, sized >>

\* ------------------------------------------------------------- makeFile.size
\* the multiplier of one unit in the next
Kilo == 1024

\* the largest whole number handed to makeFile.size, in either direction
MaxSize == 4

\* JS values handed to makeFile.size as bytes: the type typeof reports, and
\* for a number whether it is finite, an infinity (val is its sign) or NaN
Num(n) == [ type |-> "number", kind |-> "finite", val |-> n ]
Infinite(sign) == [ type |-> "number", kind |-> "infinite", val |-> sign ]
NaN == [ type |-> "number", kind |-> "NaN", val |-> 0 ]
NotANumber(t) == [ type |-> t, kind |-> "other", val |-> 0 ]

\* bytes < 0: a comparison with NaN is false, a value that is no number is
\* never compared
LessThanZero(v) == v.kind \in { "finite", "infinite" } /\ v.val < 0

\* v * k for a positive whole k: NaN and the infinities are kept
Times(v, k) == IF v.kind = "finite" THEN Num(v.val * k) ELSE v

\* the outcomes of a call: it returns a value or throws an Error
Returns(v) == [ thrown |-> Null, value |-> v ]
Throws(message) == [ thrown |-> message, value |-> NotANumber("undefined") ]

\* a makeFile.size that looks at the unit before it looks at the size
makeFile_size_UnitFirst(bytes, unit) ==
  IF unit \notin { << "B" >>, << "K", "B" >>, << "M", "B" >> }
  THEN Throws("Invalid weight. Use 'B', 'KB', or 'MB'.")
  ELSE IF bytes.type # "number" \/ LessThanZero(bytes)
  THEN Throws("Size must be a positive number")
  ELSE CASE unit = << "B" >> -> Returns(bytes)
         [] unit = << "K", "B" >> -> Returns(Times(bytes, Kilo))
         [] OTHER -> Returns(Times(Times(bytes, Kilo), Kilo))

\* makeFile.size(bytes, unit)
makeFile_size(bytes, unit) ==
  IF bytes.type # "number" \/ LessThanZero(bytes)
  THEN Throws("Size must be a positive number")
  ELSE CASE unit = << "B" >> -> Returns(bytes)
         [] unit = << "K", "B" >> -> Returns(Times(bytes, Kilo))
         [] unit = << "M", "B" >> -> Returns(Times(Times(bytes, Kilo), Kilo))
         [] OTHER -> Throws("Invalid weight. Use 'B', 'KB', or 'MB'.")

\* the values makeFile.size is called with as bytes
SizeInputs ==
  { Num(n) : n \in (-MaxSize .. MaxSize) \cup { Kilo - 1, Kilo, -Kilo } }
    \cup { Infinite(1), Infinite(-1), NaN }
    \cup { NotANumber(t) : t \in { "string", "undefined", "object" } }

\* the values makeFile.size is called with as unit
SizeUnits ==
  { << "B" >>, << "K", "B" >>, << "M", "B" >>, << "G", "B" >>, << "b" >>,
    << "k", "b" >>, <<>>, Undefined }

\* makeFile.size has not been called
NotSized ==
  [ bytes |-> NotANumber("undefined"), unit |-> Undefined, called |-> FALSE,
    out |-> Throws(Null) ]

\* makeFile.size(bytes, unit)
Size_call(bytes, unit) ==
  /\ sized' = [ bytes |-> bytes, unit |-> unit, called |-> TRUE,
                out |-> makeFile_size(bytes, unit) ]
  /\ UNCHANGED << store, handled, removed, uploadVars, mwVars, made, named,
                  issued, placed >>

\* ------------------------------------------------ constructors, on their own
\* options new FakeMulterS3 is called with
S3NewOptions ==
  { [ S3Defaults EXCEPT !.s3 = c, !.bucket = b, !.key = k, !.acl = a ] :
      c \in BOOLEAN,
      b \in { OptNone, OptStr(<<>>), OptStr(<< "b", "k", "t" >>), OptFn },
      k \in { OptNone, OptFn },
      a \in { OptNone, OptStr(<< "public-read" >>) } }

\* options new FakeMulterAzureBlobStorage is called with
AzureNewOptions ==
  { [ containerName |-> c, accountName |-> n, accountKey |-> k,
      connectionString |-> s, metadata |-> m ] :
      c \in { Undefined, <<>>, << "c" >> },
      n \in { Undefined, << "a", "c" >> },
      k \in { Undefined, << "k", "e", "y" >> },
      s \in { Undefined, << "c", "s" >> },
      m \in { OptNone, OptObj(<< "{obj}" >>), OptFn } }

\* no constructor has been called
NotMade == [ engine |-> "none", options |-> [ none |-> TRUE ], thrown |-> Null ]

\* new FakeMulterS3(opts)
S3_construct(opts) ==
  /\ made' = [ engine |-> "s3", options |-> opts, thrown |-> S3_new(opts) ]
  /\ UNCHANGED << store, handled, removed, uploadVars, mwVars, named, issued, sideVars >>

\* new FakeMulterAzureBlobStorage(opts)
Azure_construct(opts) ==
  /\ made' = [ engine |-> "azure", options |-> opts,
               thrown |-> Azure_new(opts) ]
  /\ UNCHANGED << store, handled, removed, uploadVars, mwVars, named, issued, sideVars >>

\* options new FakeMulterCloudStorage is called with; credentials is an
\* object or is missing
GcsNewOptions ==
  { [ bucket |-> b, projectId |-> p, keyFilename |-> k, credentials |-> c,
      destination |-> OptNone, filename |-> OptNone, hideFilename |-> FALSE,
      uniformBucketLevelAccess |-> FALSE, contentType |-> OptNone ] :
      b \in { Undefined, <<>>, << "g", "b" >> },
      p \in { Undefined, << "p", "r", "j" >> },
      k \in { Undefined, << "k", ".", "j" >> },
      c \in { Undefined, << "{credentials}" >> } }

\* process.env when the constructor runs: a variable is unset, empty or set
GcsEnvironments ==
  { [ GCS_BUCKET |-> b, GCLOUD_PROJECT |-> p, GCS_KEYFILE |-> k ] :
      b \in { Undefined, <<>>, << "e", "b" >> },
      p \in { Undefined, << "e", "p" >> },
      k \in { Undefined, << "e", "k" >> } }

\* a || b || null
OrElseNull(a, b) ==
  IF Truthy(a) THEN a ELSE IF Truthy(b) THEN b ELSE JsNull

\* a constructor that does not look at the environment
Gcs_new_NoEnvironment(opts, env) ==
  LET own == [ opts EXCEPT
                 !.bucket = OrElseNull(opts.bucket, Undefined),
                 !.projectId = OrElseNull(opts.projectId, Undefined),
                 !.keyFilename = OrElseNull(opts.keyFilename, Undefined) ]
  IN [ options |-> own,
       thrown |->
         IF ~ Truthy(own.bucket)
         THEN "Error: You have to specify bucket for Google Cloud Storage to work."
         ELSE IF ~ Truthy(own.projectId)
         THEN "Error: You have to specify project id for Google Cloud Storage to work."
         ELSE IF ~ Truthy(own.keyFilename) /\ ~ Truthy(own.credentials)
         THEN "Error: You have to specify credentials key file or credentials object, for Google Cloud Storage to work."
         ELSE Null ]

\* constructor: this.#options is the options object itself, so the three
\* assignments are seen by the checks on options that follow them; the
\* options as they are left, and what is thrown (Null when it returns)
Gcs_new(opts, env) ==
  LET own == [ opts EXCEPT
                 !.bucket = OrElseNull(opts.bucket, env.GCS_BUCKET),
                 !.projectId = OrElseNull(opts.projectId, env.GCLOUD_PROJECT),
                 !.keyFilename = OrElseNull(opts.keyFilename, env.GCS_KEYFILE) ]
  IN [ options |-> own,
       thrown |->
         IF ~ Truthy(own.bucket)
         THEN "Error: You have to specify bucket for Google Cloud Storage to work."
         ELSE IF ~ Truthy(own.projectId)
         THEN "Error: You have to specify project id for Google Cloud Storage to work."
         ELSE IF ~ Truthy(own.keyFilename) /\ ~ Truthy(own.credentials)
         THEN "Error: You have to specify credentials key file or credentials object, for Google Cloud Storage to work."
         ELSE Null ]

\* new FakeMulterCloudStorage(opts) under an environment; bucket is the
\* bucket _handleFile then puts in its results
Gcs_construct(opts, env) ==
  /\ LET new == Gcs_new(opts, env)
         ref == [ destination |-> <<>>, filename |-> << "b" >> ]
     IN made' = [ engine |-> "gcs", options |-> opts, env |-> env,
                  thrown |-> new.thrown,
                  bucket |-> IF new.thrown = Null
                             THEN Gcs_location(new.options, ref).bucket
                             ELSE Undefined ]
  /\ UNCHANGED << store, handled, removed, uploadVars, mwVars, named, issued, sideVars >>

\* ---------------------------------------------------------- specifications
\* the four storage engines
Engines == { "disk", "s3", "gcs", "azure" }

\* the options an engine of each kind is constructed with
OptionSets(e) ==
  CASE e = "disk" -> DiskOptionSets
    [] e = "s3" -> S3OptionSets
    [] e = "gcs" -> GcsOptionSets
    [] e = "azure" -> AzureOptionSets

\* every upload slot is served by an engine that has been constructed; the
\* store is empty and no call has been made
Init ==
  /\ store = EmptyMap
  /\ handled = 0
  /\ removed = [ count |-> 0, name |-> <<>>, calls |-> <<>> ]
  /\ pc = [ u \in Uploads |-> "idle" ]
  /\ engine \in [ Uploads -> Engines ]
  /\ file = [ u \in Uploads |-> NoFile ]
  /\ options \in [ Uploads -> UNION { OptionSets(e) : e \in Engines } ]
  /\ \A u \in Uploads : options[u] \in OptionSets(engine[u])
  /\ invoked = [ u \in Uploads |-> <<>> ]
  /\ passed = [ u \in Uploads |-> <<>> ]
  /\ locals = [ u \in Uploads |-> EmptyMap ]
  /\ sink = [ u \in Uploads |-> NoSink ]
  /\ delivered = [ u \in Uploads |-> <<>> ]
  /\ calls = [ u \in Uploads |-> <<>> ]
  /\ mw = MW_New
  /\ mwWritten = <<>>
  /\ mwLast = [ op |-> "new", error |-> Null ]
  /\ mwEvents = <<>>
  /\ made = NotMade
  /\ named = NotNamed
  /\ issued = {}
  /\ sized = NotSized
  /\ placed = NotPlaced

\* the steps of one upload once _handleFile has been entered
Progress(u) ==
  \/ Disk_onDestination(u)
  \/ Disk_onFilename(u)
  \/ Disk_onFinish(u)
  \/ S3_onHandler(u)
  \/ \E versionId \in Uuids : S3_onFinish(u, versionId)
  \/ Gcs_onFinish(u)
  \/ Azure_onMetadata(u)
  \/ Azure_onFinish(u)
  \/ StreamData(u)
  \/ StreamError(u)

Next ==
  \/ \E u \in Uploads, f \in Files : Disk_handleFile(u, f)
  \/ \E u \in Uploads : Progress(u)
  \/ \E u \in Uploads, f \in Files : S3_handleFile(u, f)
  \/ \E f \in Files : Disk_removeFile(f)
  \/ \E u \in Uploads, f \in Files : Gcs_handleFile(u, f)
  \/ \E u \in Uploads, f \in Files : Azure_handleFile(u, f)
  \/ \E f \in Files : S3_removeFile(f)
  \/ \E f \in Files : Gcs_removeFile(f)
  \/ \E f \in Files : Azure_removeFile(f)

\* the engines and their store
Spec == Init /\ [][Next]_vars

\* the event loop runs every callback that is due: a handler that was called
\* calls back, and a piped file stream delivers its next chunk, ends or fails
FairSpec == Spec /\ \A u \in Uploads : WF_vars(Progress(u))

NextMW ==
  \/ \E chunk \in ChunkSet : MWWrite(chunk)
  \/ \E list \in ChunkLists : MWWritev(list)
  \/ \E error \in DestroyErrors : MWDestroy(error)

\* a MemoryWritable on its own
SpecMW == Init /\ [][NextMW]_vars

NextNew ==
  \/ \E opts \in S3NewOptions : S3_construct(opts)
  \/ \E opts \in AzureNewOptions : Azure_construct(opts)
  \/ \E opts \in GcsNewOptions, env \in GcsEnvironments :
       Gcs_construct(opts, env)

\* before a constructor is called: the slots are served by engines of the
\* kind that takes a container name
InitNew == Init /\ \A u \in Uploads : engine[u] = "azure"

\* the constructors on their own
SpecNew == InitNew /\ [][NextNew]_vars

NextS3 ==
  \/ \E u \in Uploads, f \in Files : S3_handleFileAfter(u, f)
  \/ \E u \in Uploads : S3_onHandler(u)
  \/ \E u \in Uploads : StreamData(u)
  \/ \E u \in Uploads : StreamError(u)
  \/ \E u \in Uploads, versionId \in Uuids : S3_onFinish(u, versionId)
  \/ \E f \in Files : S3_removeFile(f)

\* the slots are served by FakeMulterS3
InitS3 == Init /\ \A u \in Uploads : engine[u] = "s3"

\* the uploads of FakeMulterS3 one after the other, each result remembered
\* until the next one is there to compare it with
SpecS3 == InitS3 /\ [][NextS3]_vars

\* the uploads in flight at once when uploads overlap
Racers == { 1, 2 }

\* the options of the engine each kind of racer is served by
RaceOptions(e) ==
  CASE e = "disk" -> [ destination |-> OptNone, filename |-> OptFn ]
    [] e = "s3" -> S3Defaults
    [] e = "gcs" ->
         [ bucket |-> << "g", "b" >>, destination |-> OptNone,
           filename |-> OptNone, hideFilename |-> FALSE,
           uniformBucketLevelAccess |-> FALSE, contentType |-> OptNone ]
    [] e = "azure" ->
         [ containerName |-> << "c" >>, accountName |-> << "a", "c" >>,
           metadata |-> OptNone ]

\* two slots, each served by an engine that has been constructed, over the
\* one inMemoryStorage
InitRace ==
  /\ store = EmptyMap
  /\ handled = 0
  /\ removed = [ count |-> 0, name |-> <<>>, calls |-> <<>> ]
  /\ pc = [ u \in Racers |-> "idle" ]
  /\ engine \in [ Racers -> Engines ]
  /\ file = [ u \in Racers |-> NoFile ]
  /\ options = [ u \in Racers |-> RaceOptions(engine[u]) ]
  /\ invoked = [ u \in Racers |-> <<>> ]
  /\ passed = [ u \in Racers |-> <<>> ]
  /\ locals = [ u \in Racers |-> EmptyMap ]
  /\ sink = [ u \in Racers |-> NoSink ]
  /\ delivered = [ u \in Racers |-> <<>> ]
  /\ calls = [ u \in Racers |-> <<>> ]
  /\ mw = MW_New
  /\ mwWritten = <<>>
  /\ mwLast = [ op |-> "new", error |-> Null ]
  /\ mwEvents = <<>>
  /\ made = NotMade
  /\ named = NotNamed
  /\ issued = {}
  /\ sized = NotSized
  /\ placed = NotPlaced

NextRace ==
  \/ \E u \in Racers, f \in Files : Disk_handleFile(u, f)
  \/ \E u \in Racers, f \in Files : S3_handleFile(u, f)
  \/ \E u \in Racers, f \in Files : Gcs_handleFile(u, f)
  \/ \E u \in Racers, f \in Files : Azure_handleFile(u, f)
  \/ \E u \in Racers : Progress(u)

\* uploads that overlap: the steps of two _handleFile calls interleave as
\* the event loop runs their callbacks
SpecRace == InitRace /\ [][NextRace]_vars

NextSize ==
  \E bytes \in SizeInputs, unit \in SizeUnits : Size_call(bytes, unit)

\* makeFile.size on its own
SpecSize == InitNew /\ [][NextSize]_vars

NextNames ==
  \E opts \in GcsNameOptions, f \in RichFiles : Gcs_resolve(opts, f)

\* before a name is resolved: the slots are served by FakeMulterCloudStorage
InitNames == Init /\ \A u \in Uploads : engine[u] = "gcs"

\* the naming of FakeMulterCloudStorage on its own
SpecNames == InitNames /\ [][NextNames]_vars

NextPlaces ==
  \E opts \in GcsPlaceOptions, f \in Files : Gcs_locate(opts, f)

\* the locating of FakeMulterCloudStorage on its own
SpecPlaces == InitNames /\ [][NextPlaces]_vars

\* ------------------------------------------------------------- properties
\* the completion callback was called in this step
CallbackFired(u) == Len(calls'[u]) = Len(calls[u]) + 1

\* the only entry of calls[u] reports success
Succeeded(u) ==
  /\ Len(calls[u]) = 1
  /\ calls[u][1].err = Null
  /\ calls[u][1].info # NoInfo

\* the entries of m under every key but k
Others(m, k) == [ x \in (DOMAIN m) \ { k } |-> m[x] ]

\* C1: on every engine, when the completion callback of _handleFile is called
\* without an error, inMemoryStorage holds under file.originalname the chunks
\* the file stream delivered, concatenated in arrival order, and the upload
\* has added, changed or removed no other key.
C1_StoredOnSuccess ==
  [][ \A u \in Uploads :
        (CallbackFired(u) /\ Last(calls'[u]).err = Null) =>
          /\ Last(calls'[u]).seen = Flatten(delivered[u])
          /\ MapHas(store', file[u].originalname)
          /\ store'[file[u].originalname] = Flatten(delivered[u])
          /\ Others(store', file[u].originalname)
               = Others(store, file[u].originalname) ]_vars

\* an upload of two chunks has succeeded next to an entry under another name
C1_Witness ==
  \E u \in Uploads :
    /\ Succeeded(u)
    /\ Len(delivered[u]) = 2
    /\ calls[u][1].seen = delivered[u][1] \o delivered[u][2]
    /\ \E n \in DOMAIN store : n # file[u].originalname

\* C2: _removeFile of any engine deletes the entry of inMemoryStorage under
\* file.originalname and no other, and calls callback(null) exactly once;
\* when there is no such entry the store is left as it was.
C2_RemoveExactlyOne ==
  [][ removed'.count # removed.count =>
        /\ ~ MapHas(store', removed'.name)
        /\ Others(store', removed'.name) = Others(store, removed'.name)
        /\ (~ MapHas(store, removed'.name) => store' = store)
        /\ removed'.calls = << Null >> ]_vars

\* the second upload stored the key that a later _removeFile deleted, and the
\* entry of the first upload is still there
C2_Witness ==
  \E u \in Uploads :
    /\ Succeeded(u)
    /\ removed.count = 1
    /\ removed.name = file[u].originalname
    /\ ~ MapHas(store, removed.name)
    /\ store # EmptyMap

\* the handlers of FakeMulterStorage and of FakeMulterS3, in the order the
\* claim gives
ClaimedOrder(e) ==
  IF e = "disk" THEN << "destination", "filename" >>
  ELSE << "key", "bucket", "acl", "metadata", "contentType",
          "contentDisposition", "cacheControl", "storageClass",
          "serverSideEncryption", "contentEncoding" >>

\* the upload is past file.stream.pipe(writableStream)
Piped(u) == pc[u] \in { "piping", "finished", "stalled" }

\* C3: FakeMulterStorage and FakeMulterS3 resolve their option handlers one
\* after another in the order given; when a handler reports an error the
\* completion callback is called exactly once with that error, no later
\* handler is called, the file stream is never piped into a sink and
\* inMemoryStorage is unchanged.
C3_FirstErrorForwarded ==
  /\ [](\A u \in Uploads : engine[u] \in { "disk", "s3" } =>
          /\ invoked[u] = SubSeq(ClaimedOrder(engine[u]), 1, Len(invoked[u]))
          /\ Len(passed[u]) \in { Len(invoked[u]) - 1, Len(invoked[u]) }
          /\ Piped(u) => /\ Len(passed[u]) = Len(ClaimedOrder(engine[u]))
                         /\ \A i \in DOMAIN passed[u] : passed[u][i].err = Null
          /\ \A i \in DOMAIN passed[u] : passed[u][i].err # Null =>
               /\ i = Len(invoked[u])
               /\ calls[u] = << [ err |-> passed[u][i].err, info |-> NoInfo,
                                  seen |-> Absent ] >>
               /\ ~ Piped(u)
               /\ sink[u].chunks = <<>>)
  /\ [][ \A u \in Uploads :
           (engine'[u] \in { "disk", "s3" } /\ pc'[u] = "failed"
              /\ removed' = removed) => store' = store ]_vars

\* the last of the ten handlers of FakeMulterS3 reported an error while the
\* store held an entry
C3_Witness ==
  \E u \in Uploads :
    /\ engine[u] = "s3"
    /\ Len(invoked[u]) = 10
    /\ Last(passed[u]).err = "ContentType error"
    /\ Len(calls[u]) = 1
    /\ store # EmptyMap

\* a handler of the upload called back, before returning, with an error
GcsHandlerFailed(u) ==
  \E i \in DOMAIN passed[u] :
    passed[u][i].when = "sync" /\ passed[u][i].out.err # Null

\* C4: in FakeMulterCloudStorage._handleFile, when the destination handler or
\* the filename handler reports an error, that first error is forwarded to
\* the completion callback and no entry is recorded for the file.
C4_GcsErrorForwarded ==
  \A u \in Uploads :
    (engine[u] = "gcs" /\ GcsHandlerFailed(u)) =>
      /\ pc[u] # "finished"
      /\ \A i \in DOMAIN calls[u] : calls[u][i].err # Null

\* an upload is between its _handleFile call and its outcome
InFlight(u) == pc[u] \in { "resolving", "piping" }

\* C5: every _handleFile call, on every engine, whose option handlers each
\* call back once without error and whose file stream ends normally
\* eventually calls the completion callback, exactly once, with a null error
\* and a result object: an upload in flight ends finished unless a handler
\* reported an error (failed) or the file stream failed (stalled), a finished
\* upload has made exactly that one call, and an upload in flight none.
C5_CallbackExactlyOnce ==
  /\ \A u \in Uploads :
       [](InFlight(u) => <>(pc[u] \in { "finished", "failed", "stalled" }))
  /\ [](\A u \in Uploads :
          /\ pc[u] = "finished" => Succeeded(u)
          /\ InFlight(u) => calls[u] = <<>>
          /\ Len(calls[u]) <= 1)

\* an upload on the engine with the longest handler chain has finished
C5_Witness ==
  \E u \in Uploads :
    /\ pc[u] = "finished" /\ engine[u] = "s3"
    /\ options[u] = S3Functions
    /\ Len(delivered[u]) = MaxChunks
    /\ Succeeded(u)

\* C6: when the file stream fails before it ends, _handleFile forwards that
\* error to the completion callback exactly once, and no entry is recorded
\* for the file.
C6_StreamErrorForwarded ==
  /\ \A u \in Uploads :
       (pc[u] = "stalled") ~>
         (Len(calls[u]) = 1 /\ calls[u][1].err = StreamFailure)
  /\ [][ \A u \in Uploads :
           (pc'[u] = "stalled" /\ removed' = removed) => store' = store ]_vars

RECURSIVE WriteEach(_, _)
\* _write of each chunk of a list, in list order
WriteEach(w, list) ==
  IF list = <<>> THEN w ELSE WriteEach(MW_write(w, Head(list)), Tail(list))

RECURSIVE TotalBytes(_)
TotalBytes(list) ==
  IF list = <<>> THEN 0 ELSE Len(Head(list)) + TotalBytes(Tail(list))

\* C7: a fresh MemoryWritable has size 1 and an empty buffer; while it is not
\* destroyed, after any _write and _writev calls its size is 1 plus the
\* number of bytes written and getBuffer() is the written chunks concatenated
\* in call order; _writev of a list does what _write of each chunk does.
C7_SizeAndBuffer ==
  /\ ~ mw.destroyed =>
       /\ mw.size = 1 + TotalBytes(mwWritten)
       /\ MW_getBuffer(mw) = Flatten(mwWritten)
  /\ mwLast.op = "new" => mw.size = 1 /\ MW_getBuffer(mw) = <<>>
  /\ \A list \in ChunkLists : MW_writev(mw, list) = WriteEach(mw, list)

\* a _writev call has brought a live sink to three chunks
C7_Witness ==
  /\ ~ mw.destroyed
  /\ mwLast.op = "writev"
  /\ Len(mwWritten) = 3
  /\ mw.size > 4

\* the size a result reports: blobSize on FakeMulterAzureBlobStorage
ReportedSize(u) ==
  IF engine[u] = "azure" THEN calls[u][1].info.blobSize
  ELSE calls[u][1].info.size

\* C8: for every successful upload the size reported to the completion
\* callback is 1 plus the byte length of the content stored under
\* file.originalname, hence greater than 0 even for an empty file; it is read
\* before the finished sink is destroyed, so it is not the 0 destruction sets.
C8_ReportedSize ==
  \A u \in Uploads :
    Succeeded(u) =>
      /\ ReportedSize(u) = 1 + Len(calls[u][1].seen)
      /\ calls[u][1].seen = Flatten(delivered[u])
      /\ ReportedSize(u) > 0
      /\ sink[u].destroyed /\ sink[u].size = 0

\* an empty file was uploaded: size 1 reported, and the sink destroyed since
C8_Witness ==
  \E u \in Uploads :
    /\ Succeeded(u)
    /\ delivered[u] = <<>>
    /\ ReportedSize(u) = 1
    /\ sink[u].size = 0

\* C9: destroy() on a MemoryWritable, with or without an error and after any
\* number of writes, sets size to 0 and empties the buffer; an error passed
\* to it is the error emitted on the 'error' event.
C9_DestroyClears ==
  mwLast.op = "destroy" =>
    /\ mw.size = 0
    /\ MW_getBuffer(mw) = <<>>
    /\ mwEvents = IF mwLast.error = Null THEN <<>> ELSE << mwLast.error >>

\* destroy(error) was called after two writes
C9_Witness ==
  /\ mwLast.op = "destroy"
  /\ mwLast.error = "Test error"
  /\ Len(mwWritten) >= 2
  /\ mwEvents = << "Test error" >>

\* the result of a successful FakeMulterStorage upload
DiskInfo(u) == calls[u][1].info

\* C10 as stated: the destination is the configured string, the value the
\* destination handler passed, or the temporary directory when none is
\* configured; the filename is the value the filename handler passed; the
\* path is destination, one "/", then filename, whatever the two are.
C10_PathAlwaysJoined ==
  \A u \in Uploads :
    (engine[u] = "disk" /\ Succeeded(u)) =>
      /\ DiskInfo(u).destination =
           CASE options[u].destination.kind = "string" ->
                  options[u].destination.val
             [] options[u].destination.kind = "function" -> passed[u][1].val
             [] OTHER -> Tmpdir
      /\ DiskInfo(u).filename = passed[u][2].val
      /\ DiskInfo(u).path =
           DiskInfo(u).destination \o << "/" >> \o DiskInfo(u).filename

\* a value a handler passed, an omitted one counting as the empty string
PassedOrEmpty(o) == IF o.val = Undefined THEN <<>> ELSE o.val

\* C10, amended: the destination is the configured string when that is not
\* empty, the value the destination handler passed, or the temporary
\* directory when none or an empty string is configured; the filename is the
\* value the filename handler passed; an omitted value counts as the empty
\* string; the path is destination, one "/", then filename when both are
\* non-empty, and the other one alone when one of them is empty.
C10_PathJoinsNonEmpty ==
  \A u \in Uploads :
    (engine[u] = "disk" /\ Succeeded(u)) =>
      /\ DiskInfo(u).destination =
           CASE options[u].destination.kind = "string"
                  /\ options[u].destination.val # <<>> ->
                  options[u].destination.val
             [] options[u].destination.kind = "function" ->
                  PassedOrEmpty(passed[u][1])
             [] OTHER -> Tmpdir
      /\ DiskInfo(u).filename = PassedOrEmpty(passed[u][2])
      /\ DiskInfo(u).path =
           IF DiskInfo(u).destination # <<>> /\ DiskInfo(u).filename # <<>>
           THEN DiskInfo(u).destination \o << "/" >> \o DiskInfo(u).filename
           ELSE DiskInfo(u).destination \o DiskInfo(u).filename

\* the filename handler passed the empty string: the path is the destination
C10_Witness ==
  \E u \in Uploads :
    /\ engine[u] = "disk" /\ Succeeded(u)
    /\ options[u].destination = OptStr(<< "/", "u" >>)
    /\ passed[u][2].val = <<>>
    /\ DiskInfo(u).path = << "/", "u" >>

\* an option that is missing or the empty string
MissingOrEmpty(o) == o.kind = "none" \/ (o.kind = "string" /\ o.val = <<>>)

\* C11: new FakeMulterS3(options) throws the TypeError "Expected opts.s3 to
\* be object" when options.s3 is missing, also when the bucket is missing
\* too; it throws the TypeError "bucket is required" when s3 is given and
\* the bucket is missing or the empty string; with s3 and a bucket given as
\* a non-empty string or as a handler it returns.
C11_S3ConstructorErrors ==
  made.engine = "s3" =>
    /\ ~ made.options.s3 =>
         made.thrown = "TypeError: Expected opts.s3 to be object"
    /\ (made.options.s3 /\ MissingOrEmpty(made.options.bucket)) =>
         made.thrown = "TypeError: bucket is required"
    /\ (made.options.s3 /\ ~ MissingOrEmpty(made.options.bucket)) =>
         made.thrown = Null

\* the constructor was called with neither s3 nor a bucket
C11_Witness ==
  /\ made.engine = "s3"
  /\ ~ made.options.s3
  /\ made.options.bucket = OptNone
  /\ made.thrown = "TypeError: Expected opts.s3 to be object"

\* the result of a successful FakeMulterS3 upload
S3Info(u) == calls[u][1].info

\* what the handler called for option h handed to its callback
S3Passed(u, h) ==
  passed[u][CHOOSE i \in 1..Len(invoked[u]) : invoked[u][i] = h].val

\* reading a property of a result object: undefined when it has none
JsField(obj, name) == IF name \in DOMAIN obj THEN obj[name] ELSE Undefined

\* the value the claim gives to a field: the configured string when one is
\* configured, the value the configured handler passed, and the default when
\* the option is missing or the empty string
C12_Configured(u, h, default) ==
  CASE options[u][h].kind = "string" /\ options[u][h].val # <<>> ->
         { options[u][h].val }
    [] options[u][h].kind = "function" ->
         { S3Passed(u, h) }
    [] OTHER ->
         IF default = JsNull THEN { JsNull, Undefined } ELSE { default }

\* C12: in every successful FakeMulterS3 result acl, cacheControl,
\* contentDisposition, storageClass and serverSideEncryption equal the
\* configured string, the value the configured handler passed, or their
\* default ("private", null, null, "STANDARD", null; a field that is not
\* there passes for null); metadata is the value of the metadata handler
\* (null by default), contentType the value of the contentType handler
\* (file.mimetype by default), bucket the configured string or the value of
\* the bucket handler (the empty string when it passes none).
C12_FieldsAsConfigured ==
  \A u \in Uploads :
    (engine[u] = "s3" /\ Succeeded(u)) =>
      /\ JsField(S3Info(u), "acl") \in
           C12_Configured(u, "acl", << "private" >>)
      /\ JsField(S3Info(u), "cacheControl") \in
           C12_Configured(u, "cacheControl", JsNull)
      /\ JsField(S3Info(u), "contentDisposition") \in
           C12_Configured(u, "contentDisposition", JsNull)
      /\ JsField(S3Info(u), "storageClass") \in
           C12_Configured(u, "storageClass", << "STANDARD" >>)
      /\ JsField(S3Info(u), "serverSideEncryption") \in
           C12_Configured(u, "serverSideEncryption", JsNull)
      /\ JsField(S3Info(u), "metadata") \in
           C12_Configured(u, "metadata", JsNull)
      /\ JsField(S3Info(u), "contentType") \in
           C12_Configured(u, "contentType", file[u].mimetype)
      /\ JsField(S3Info(u), "bucket") \in
           { IF b = Undefined THEN <<>> ELSE b :
               b \in C12_Configured(u, "bucket", <<>>) }

\* C13: in every successful FakeMulterS3 result the location is "https://",
\* the result's bucket, ".s3.amazonaws.com/", then the result's key; with an
\* empty bucket the host is "s3.amazonaws.com" without a leading dot; when
\* the bucket handler passes an empty or no bucket the host is that one, and
\* when the key handler passes no key the location ends with "/".
C13_Location ==
  \A u \in Uploads :
    (engine[u] = "s3" /\ Succeeded(u)) =>
      /\ S3Info(u).location =
           << "https://" >>
             \o (IF S3Info(u).bucket = <<>> THEN <<>>
                 ELSE S3Info(u).bucket \o << "." >>)
             \o << "s3.amazonaws.com", "/" >> \o S3Info(u).key
      /\ (options[u].bucket.kind = "function"
            /\ S3Passed(u, "bucket") \in { <<>>, Undefined }) =>
           SubSeq(S3Info(u).location, 1, 3) =
             << "https://", "s3.amazonaws.com", "/" >>
      /\ (options[u].key.kind = "function"
            /\ S3Passed(u, "key") = Undefined) =>
           Last(S3Info(u).location) = "/"

\* neither the bucket handler nor the key handler passed a value
C13_Witness ==
  \E u \in Uploads :
    /\ engine[u] = "s3" /\ Succeeded(u)
    /\ options[u] = S3Functions
    /\ S3Passed(u, "bucket") = Undefined
    /\ S3Passed(u, "key") = Undefined
    /\ S3Info(u).location = << "https://", "s3.amazonaws.com", "/" >>

\* C14: the etag of a FakeMulterS3 result is the MD5 hex digest, in double
\* quotes, of the bytes recorded in inMemoryStorage for the upload; an
\* upload that delivered the same bytes as an earlier one has the same etag
\* whatever else differs between them; the versionId is a value of v4().
C14_EtagOfContent ==
  \A u \in Uploads :
    (engine[u] = "s3" /\ Succeeded(u)) =>
      /\ calls[u][1].seen = Flatten(delivered[u])
      /\ S3Info(u).etag =
           << "\"" >> \o Md5Hex(calls[u][1].seen) \o << "\"" >>
      /\ S3Info(u).versionId \in Uuids
      /\ \A x \in issued :
           x.bytes = calls[u][1].seen => x.etag = S3Info(u).etag

\* two uploads of different names and keys delivered the same bytes in
\* different chunks and were given the same etag
C14_Witness ==
  \E u \in Uploads, x \in issued :
    /\ engine[u] = "s3" /\ Succeeded(u)
    /\ x.originalname # file[u].originalname
    /\ x.key # S3Info(u).key
    /\ x.chunks # delivered[u]
    /\ x.bytes = calls[u][1].seen /\ x.bytes # <<>>
    /\ x.etag = S3Info(u).etag

\* whether str ends with suffix
EndsWith(str, suffix) ==
  /\ Len(suffix) <= Len(str)
  /\ SubSeq(str, Len(str) - Len(suffix) + 1, Len(str)) = suffix

\* the upload takes its name from the default handler getFilename
UsesGetFilename(u) ==
  \/ engine[u] = "disk" /\ options[u].filename.kind = "none"
  \/ engine[u] = "s3" /\ options[u].key.kind = "none"

\* the name an upload that uses getFilename reports
GeneratedName(u) ==
  IF engine[u] = "disk" THEN DiskInfo(u).filename ELSE S3Info(u).key

\* C15: the name the default handler getFilename gives to a file, the
\* filename of FakeMulterStorage and the key of FakeMulterS3 when none is
\* configured, ends with the extension of the file's original name.
C15_ExtensionAppended ==
  \A u \in Uploads :
    (UsesGetFilename(u) /\ Succeeded(u)) =>
      EndsWith(GeneratedName(u), ExtName(file[u].originalname))

\* the lowercase hexadecimal digits
LowerHexChars ==
  { "0", "1", "2", "3", "4", "5", "6", "7", "8", "9",
    "a", "b", "c", "d", "e", "f" }

\* the filename handler is the last one called and it reported an error
FilenameFailed(u) == Len(passed[u]) = 2 /\ passed[u][2].err # Null

C17_Derived(name) ==
  LET stripped == StripLeading(StripLeading(name, { "." }), { "/" })
      clean == [ i \in 1..Len(stripped) |->
                   IF stripped[i] \in { "\r", "\n" } THEN "_"
                   ELSE stripped[i] ]
  IN SubSeq(clean, LastIndexOf(clean, "/") + 1, Len(clean))

\* the filename function, when one is consulted, passed a value or nothing
\* before it returned
C17_Resolved ==
  /\ named # NotNamed
  /\ named.call.when = "sync" /\ named.call.out.err = Null

\* the filename the claim describes, given the name that was resolved
C17_Expected(resolved, fromOriginal) ==
  /\ named.options.hideFilename =>
       named.filename \in Uuids /\ named.contentType = Undefined
  /\ ~ named.options.hideFilename =>
       IF \/ fromOriginal /\ named.file.originalname = JsNull
          \/ resolved \in { <<>>, Undefined }
       THEN named.filename \in Uuids
       ELSE named.filename = C17_Derived(resolved)

\* C17 as stated: with hideFilename the filename is a UUID and the content
\* type undefined whatever filename is configured; otherwise the filename
\* derives from the configured filename string, else from the value the
\* filename function passes, else from file.originalname; it is a UUID when
\* file.originalname is not a string or the resolved name is empty.
C17_FilenamePrecedence ==
  C17_Resolved =>
    C17_Expected(
      CASE named.options.filename.kind = "string" ->
             named.options.filename.val
        [] named.options.filename.kind = "function" -> named.call.out.val
        [] OTHER -> named.file.originalname,
      named.options.filename.kind = "none")

\* the filename option is missing or is the empty string
C17_Unnamed ==
  \/ named.options.filename.kind = "none"
  \/ named.options.filename = OptStr(<<>>)

\* C17, amended: as above, but a filename option that is the empty string
\* counts as missing, so that the name derives from file.originalname.
C17_FilenamePrecedenceNonEmpty ==
  C17_Resolved =>
    C17_Expected(
      CASE named.options.filename.kind = "function" -> named.call.out.val
        [] C17_Unnamed -> named.file.originalname
        [] OTHER -> named.options.filename.val,
      C17_Unnamed)

\* hideFilename was set together with a filename string
C17_Witness ==
  /\ named # NotNamed
  /\ named.options.hideFilename
  /\ named.options.filename = OptStr(<< "t", ".", "x" >>)
  /\ named.filename \in Uuids
  /\ named.contentType = Undefined

\* C18: the filename FakeMulterCloudStorage reports holds no "/", no
\* carriage return and no line feed, whatever name was resolved.
C18_NoSeparators ==
  named # NotNamed =>
    \A i \in DOMAIN named.filename :
      named.filename[i] \notin { "/", "\r", "\n" }

\* an original name with line breaks was resolved
C18_Witness ==
  /\ named # NotNamed
  /\ ~ named.options.hideFilename
  /\ named.options.filename = OptNone
  /\ named.file.originalname = << "a", "\r", "b", "\n" >>
  /\ named.filename = << "a", "_", "b", "_" >>

\* C19: the filename FakeMulterCloudStorage reports never holds two dots in
\* a row, whatever name was resolved.
C19_NoDotDot ==
  named # NotNamed =>
    \A i \in DOMAIN named.filename :
      i < Len(named.filename) =>
        ~ (named.filename[i] = "." /\ named.filename[i + 1] = ".")

\* an Azure option that is missing or empty
Unset(v) == v = Undefined \/ v = <<>>

\* C20: new FakeMulterAzureBlobStorage(options) throws the Error "Missing
\* required parameter: Azure container name." exactly when
\* options.containerName is missing or empty, and throws nothing else:
\* missing accountName, accountKey or connectionString make no difference.
C20_AzureConstructorError ==
  made.engine = "azure" =>
    /\ Unset(made.options.containerName) <=>
         made.thrown =
           "Error: Missing required parameter: Azure container name."
    /\ ~ Unset(made.options.containerName) <=> made.thrown = Null

\* the constructor was given a container name and nothing else
C20_Witness ==
  /\ made.engine = "azure"
  /\ made.options.containerName = << "c" >>
  /\ made.options.accountName = Undefined
  /\ made.options.accountKey = Undefined
  /\ made.options.connectionString = Undefined
  /\ made.thrown = Null

\* the result object of an upload of FakeMulterAzureBlobStorage
AzureInfo(u) == calls[u][1].info

\* the entries of a list
Members(list) == { list[i] : i \in DOMAIN list }

\* C21: for every successful FakeMulterAzureBlobStorage upload, container is
\* the configured containerName, blobType is "BlockBlob", blobName is
\* file.fieldname, "-", a UUID and the extension of file.originalname, and
\* url is "https://" host "/" container "/" blobName "?" query, where host is
\* accountName "." audience (the audience alone without an accountName) for
\* a listed audience, and the query carries sp=r, st, se, an sv that is one
\* of VALID_AZURE_API_VERSIONS, sr=b and sig.
C21_AzureResult ==
  \A u \in Uploads :
    (engine[u] = "azure" /\ Succeeded(u)) =>
      LET info == AzureInfo(u)
          account == options[u].accountName
          hosts ==
            { IF account \in { Undefined, <<>> } THEN << audience >>
              ELSE account \o << ".", audience >> :
              audience \in Members(VALID_AZURE_BLOB_AUDIENCE) }
          extension ==
            IF file[u].originalname = << "a", ".", "t" >> THEN << ".", "t" >>
            ELSE <<>>
      IN /\ info.container = options[u].containerName
         /\ info.blobType = << "BlockBlob" >>
         /\ \E id \in Uuids :
              info.blobName = file[u].fieldname \o << "-" >> \o id \o extension
         /\ \E host \in hosts, sv \in Members(VALID_AZURE_API_VERSIONS),
               sig \in Uuids :
              info.url =
                << "https://" >> \o host \o << "/" >> \o info.container
                  \o << "/" >> \o info.blobName \o << "?" >>
                  \o << "sp=r", "&", "st=", "<now>", "&", "se=",
                        "<now+expiry>", "&", "sv=", sv, "&", "sr=b", "&",
                        "sig=" >> \o sig

\* a file with an extension was uploaded through an engine that has no
\* account name: the host is the audience alone
C21_Witness ==
  \E u \in Uploads :
    /\ engine[u] = "azure" /\ Succeeded(u)
    /\ options[u].accountName = Undefined
    /\ file[u].originalname = << "a", ".", "t" >>
    /\ SubSeq(AzureInfo(u).url, 1, 3) =
         << "https://", "blob.core.windows.net", "/" >>
    /\ AzureInfo(u).blobName =
         << "f", "i", "l", "e", "-", "u", "1", ".", "t" >>

\* the metadata a FakeMulterAzureBlobStorage result is to carry: the
\* configured object, what the configured function resolved to, or {}
C22_Expected(u) ==
  CASE options[u].metadata.kind = "object" -> options[u].metadata.val
    [] options[u].metadata.kind = "function" -> passed[u][1].val
    [] OTHER -> << "{}" >>

\* C22: the metadata of a FakeMulterAzureBlobStorage result is the configured
\* metadata object, the value the configured metadata function resolves to,
\* or an empty object when none is configured; when the metadata function
\* rejects or throws, the completion callback is called exactly once, with
\* that error, the file stream is never piped into a sink and inMemoryStorage
\* is unchanged.
C22_AzureMetadata ==
  /\ [](\A u \in Uploads : engine[u] = "azure" =>
          /\ Succeeded(u) => AzureInfo(u).metadata = C22_Expected(u)
          /\ (passed[u] # <<>> /\ passed[u][1].err # Null) =>
               /\ options[u].metadata.kind = "function"
               /\ calls[u] = << [ err |-> passed[u][1].err, info |-> NoInfo,
                                  seen |-> Absent ] >>
               /\ ~ Piped(u)
               /\ sink[u].chunks = <<>>)
  /\ [][ \A u \in Uploads :
           (engine'[u] = "azure" /\ pc'[u] = "failed"
              /\ removed' = removed) => store' = store ]_vars

\* the metadata function rejected while the store held an entry, and the
\* callback was given its error
C22_Witness ==
  \E u \in Uploads :
    /\ engine[u] = "azure"
    /\ options[u].metadata.kind = "function"
    /\ pc[u] = "failed"
    /\ calls[u] = << [ err |-> "Metadata error", info |-> NoInfo,
                       seen |-> Absent ] >>
    /\ store # EmptyMap

\* n >= 0 for a JS number n (false for NaN)
C23_AtLeastZero(v) ==
  v.type = "number" /\ v.kind \in { "finite", "infinite" } /\ v.val >= 0

\* n is negative, or typeof n is not "number"
C23_NegativeOrNoNumber(v) ==
  \/ v.type # "number"
  \/ v.kind \in { "finite", "infinite" } /\ v.val < 0

\* n * k for a number n >= 0: an infinity times k is that infinity
C23_Product(v, k) ==
  IF v.kind = "infinite" THEN v
  ELSE [ type |-> "number", kind |-> "finite", val |-> v.val * k ]

\* C23: makeFile.size(n, unit) returns n for "B", n * 1024 for "KB" and
\* n * 1024 * 1024 for "MB" for every number n >= 0, 0 included; it throws
\* "Size must be a positive number" when n is negative or not a number,
\* whatever the unit is, and "Invalid weight. Use 'B', 'KB', or 'MB'." for
\* every other unit when the size is accepted.
C23_Size ==
  sized.called =>
    LET n == sized.bytes
        unit == sized.unit
        out == sized.out
    IN /\ (C23_AtLeastZero(n) /\ unit = << "B" >>) =>
            out = [ thrown |-> Null, value |-> n ]
       /\ (C23_AtLeastZero(n) /\ unit = << "K", "B" >>) =>
            out = [ thrown |-> Null, value |-> C23_Product(n, 1024) ]
       /\ (C23_AtLeastZero(n) /\ unit = << "M", "B" >>) =>
            out = [ thrown |-> Null, value |-> C23_Product(n, 1024 * 1024) ]
       /\ C23_NegativeOrNoNumber(n) =>
            out.thrown = "Size must be a positive number"
       /\ (~ C23_NegativeOrNoNumber(n)
             /\ unit \notin { << "B" >>, << "K", "B" >>, << "M", "B" >> }) =>
            out.thrown = "Invalid weight. Use 'B', 'KB', or 'MB'."

\* a negative size was given with a unit that does not exist, and the call
\* threw the error about the size
C23_Witness ==
  /\ sized.called
  /\ sized.bytes = [ type |-> "number", kind |-> "finite", val |-> -1 ]
  /\ sized.unit = << "G", "B" >>
  /\ sized.out.thrown = "Size must be a positive number"

\* the finish listener of the upload in slot u runs in this step
C24_Finishes(u) == pc[u] = "piping" /\ pc'[u] = "finished"

\* C24: when several uploads are in flight at once, on the same engine or
\* on different engines, each owns its sink: a sink holds the chunks of its
\* own upload and no others, every change of inMemoryStorage is the finish
\* listener of one upload putting the whole content of that upload, and of
\* no other, under its file.originalname, whatever was there before; so the
\* entry under a name shared by two uploads holds the content of the one
\* whose sink finished last.
C24_OwnSinkLastWins ==
  /\ [](\A u \in Racers :
          pc[u] = "piping" => sink[u].chunks = delivered[u])
  /\ [][ /\ \A u \in Racers :
              C24_Finishes(u) =>
                store' =
                  [ k \in (DOMAIN store) \cup { file[u].originalname } |->
                      IF k = file[u].originalname
                      THEN Flatten(delivered[u]) ELSE store[k] ]
         /\ (\A u \in Racers : ~ C24_Finishes(u)) => store' = store ]_vars

\* two uploads of the same name on different engines: one has finished and
\* the entry holds its content, while the other, with another content in its
\* own sink, is still in flight
C24_Witness ==
  \E u, v \in Racers :
    /\ engine[u] # engine[v]
    /\ file[u].originalname = file[v].originalname
    /\ pc[u] = "finished" /\ pc[v] = "piping"
    /\ handled = 2
    /\ delivered[v] # <<>>
    /\ Len(delivered[v]) < Len(delivered[u])
    /\ store[file[u].originalname] = Flatten(delivered[u])

\* the destination that remains of a destination passed by a handler: dots
\* in front, then slashes in front and behind are dropped, and what is left,
\* unless it is empty, is followed by "/"
C25_Place(destination) ==
  LET given == IF destination = Undefined THEN <<>> ELSE destination
      inner == StripTrailing(StripLeading(StripLeading(given, { "." }),
                                          { "/" }), { "/" })
  IN IF inner = <<>> THEN <<>> ELSE inner \o << "/" >>

\* C25: when a filename function (a destination function) is given to
\* FakeMulterCloudStorage, the result's filename (destination) is derived
\* from the name the function passes to its callback, and the path from the
\* two, whenever the function calls back once without an error, before it
\* returns or later: a missing or empty name gives a UUID, any other name
\* its sanitized last segment.
C25_HandlerHeard ==
  placed # NotPlaced =>
    /\ (placed.options.filename.kind = "function"
          /\ placed.fCall.out.err = Null) =>
         IF placed.fCall.out.val \in { Undefined, <<>> }
         THEN placed.at.filename \in Uuids
         ELSE placed.at.filename = C17_Derived(placed.fCall.out.val)
    /\ (placed.options.destination.kind = "function"
          /\ placed.dCall.out.err = Null) =>
         placed.at.destination = C25_Place(placed.dCall.out.val)
    /\ placed.at.path =
         JoinWith(SelectSeq(<< placed.at.destination, placed.at.filename >>,
                            LAMBDA part : part # <<>>), << "/" >>)

\* a path has no empty segment: no "/" in front, none behind, no two in a row
C26_NoEmptySegment(path) ==
  /\ path # <<>> => path[1] # "/" /\ path[Len(path)] # "/"
  /\ \A i \in DOMAIN path :
       i < Len(path) => ~ (path[i] = "/" /\ path[i + 1] = "/")

\* a blob was located whose handlers called back before they returned, and
\* without an error
C26_Located ==
  /\ placed # NotPlaced
  /\ placed.dCall.when = "sync" /\ placed.dCall.out.err = Null
  /\ placed.fCall.when = "sync" /\ placed.fCall.out.err = Null

\* C26: for every FakeMulterCloudStorage result, path is the destination and
\* the filename joined without an empty segment (no "/" in front or behind,
\* no "//"), for every configured destination, also one with dots in front
\* or slashes in front and behind; uri is "gs://" bucket "/" path, and
\* linkUrl and selfLink are "https://storage.googleapis.com/" bucket "/" path.
C26_PathAndLinks ==
  C26_Located =>
    LET at == placed.at
        storage == at.bucket \o << "/" >> \o at.path
    IN /\ C26_NoEmptySegment(at.path)
       /\ at.uri = << "gs://" >> \o storage
       /\ at.linkUrl = << "https://storage.googleapis.com/" >> \o storage
       /\ at.selfLink = << "https://storage.googleapis.com/" >> \o storage

\* the value that is available of an option and its environment variable:
\* the option when it is given, failing that the variable, else none
C27_Available(option, variable) ==
  IF option \notin { Undefined, <<>> } THEN { option }
  ELSE IF variable \notin { Undefined, <<>> } THEN { variable }
  ELSE {}

\* C27: new FakeMulterCloudStorage(options) throws, in this order of
\* precedence, when no bucket is available, when no projectId is available,
\* and when neither a keyFilename nor a credentials object is available; a
\* value is available when it is given in options or, failing that, in the
\* environment variable GCS_BUCKET, GCLOUD_PROJECT or GCS_KEYFILE; otherwise
\* the constructor returns and the bucket of every result is that value.
C27_GcsConstructor ==
  made.engine = "gcs" =>
    LET bucket == C27_Available(made.options.bucket, made.env.GCS_BUCKET)
        project ==
          C27_Available(made.options.projectId, made.env.GCLOUD_PROJECT)
        key == C27_Available(made.options.keyFilename, made.env.GCS_KEYFILE)
                 \cup C27_Available(made.options.credentials, Undefined)
    IN /\ bucket = {} =>
            made.thrown =
              "Error: You have to specify bucket for Google Cloud Storage to work."
       /\ (bucket # {} /\ project = {}) =>
            made.thrown =
              "Error: You have to specify project id for Google Cloud Storage to work."
       /\ (bucket # {} /\ project # {} /\ key = {}) =>
            made.thrown =
              "Error: You have to specify credentials key file or credentials object, for Google Cloud Storage to work."
       /\ (bucket # {} /\ project # {} /\ key # {}) =>
            made.thrown = Null /\ bucket = { made.bucket }

\* the constructor was given a credentials object only and found the bucket
\* and the project in the environment
C27_Witness ==
  /\ made.engine = "gcs"
  /\ made.options.bucket = <<>>
  /\ made.options.projectId = Undefined
  /\ made.options.keyFilename = Undefined
  /\ made.env.GCS_KEYFILE = Undefined
  /\ made.thrown = Null
  /\ made.bucket = << "e", "b" >>

\* ------------------------------------------------------------- claim C28
\* what the handler of the contentType option may hand to its callback,
\* on its first call or on a later one
C28_Answers ==
  { [ err |-> "ContentType error", val |-> Undefined ],
    [ err |-> Null, val |-> << "image/png" >> ],
    [ err |-> Null, val |-> << "gzip" >> ] }

\* C28: FakeMulterS3 has no contentEncoding option. Without a contentType
\* option the contentEncoding of every result is null. With a contentType
\* handler, that handler is called twice per upload, the fifth call for
\* contentType and the tenth and last for contentEncoding; the result's
\* contentEncoding is the value of the second call, and an error of the
\* second call ends the upload: the completion callback gets that error, the
\* file stream is never piped and nothing is written.
C28_ContentEncoding ==
  \A u \in Uploads : engine[u] = "s3" =>
    /\ (pc[u] = "finished" /\ options[u].contentType.kind = "none") =>
         S3Info(u).contentEncoding = JsNull
    /\ (options[u].contentType.kind = "function" /\ Len(passed[u]) = 10) =>
         /\ invoked[u][5] = "contentType" /\ invoked[u][10] = "contentEncoding"
         /\ passed[u][5] \in C28_Answers /\ passed[u][5].err = Null
         /\ passed[u][10] \in C28_Answers
         /\ pc[u] = "finished" =>
              /\ S3Info(u).contentType = passed[u][5].val
              /\ S3Info(u).contentEncoding = passed[u][10].val
         /\ passed[u][10].err # Null =>
              /\ pc[u] = "failed"
              /\ calls[u] = << [ err |-> passed[u][10].err, info |-> NoInfo,
                                 seen |-> Absent ] >>
              /\ sink[u].chunks = <<>>

\* an upload of FakeMulterS3 finished whose contentType handler passed one
\* value when called for contentType and another when called again
C28_Witness ==
  \E u \in Uploads :
    /\ engine[u] = "s3" /\ pc[u] = "finished"
    /\ options[u].contentType.kind = "function"
    /\ S3Info(u).contentType = << "image/png" >>
    /\ S3Info(u).contentEncoding = << "gzip" >>

====
